---- MODULE Spec2Model ----
(***************************************************************************)
(* Model of the Mix-Play engine of src/src/mix_player.py (class MixPlayer): *)
(* the word index built from transcript files, the multi-tier search,      *)
(* the diversity-aware selection, the sentence composer and the audio      *)
(* assembler.                                                              *)
(*                                                                         *)
(* Conventions.  A Python str that the code inspects character by          *)
(* character (a word, a search term, an index key) is a sequence of        *)
(* one-character strings; a character outside ASCII is written by its code *)
(* point ("U+00E0" is a-grave, "U+0300" the combining grave accent).       *)
(* Opaque strings (speaker labels, paths) are TLA+ strings.  Times are     *)
(* integer milliseconds and confidences integer percents: 0.9 is 90.       *)
(***************************************************************************)
EXTENDS Integers, Sequences, FiniteSets, TLC

VARIABLES
    disk,                  \* transcription_dir: the *_complete.json files, in glob order
    word_index,            \* self.word_index: key -> list of WordMatch
    transcriptions_loaded, \* self.transcriptions_loaded
    loaded_from,           \* how many files of disk the last load_transcriptions read
    audio_cache,           \* self.audio_cache: audio_path -> decoded length (ms)
    outputs,               \* the files generate_mixed_audio exported
    last,                  \* the last call on the player: its arguments and its outcome
    threads                \* the frames of the search_word calls running in threads

vars == <<disk, word_index, transcriptions_loaded, loaded_from, audio_cache, outputs, last, threads>>

-----------------------------------------------------------------------------
(* Bounds of the model *)

MaxRecords == 2     \* transcript files in transcription_dir
MaxWords == 3       \* words in one compose_sentence request
MaxUsage == 2       \* largest count in a ledger handed to find_best_word_match
MaxResults == 3     \* largest max_results handed to search_word
MaxTokenLen == 3    \* characters of a token handed to clean_word
MaxPasses == 2      \* times clean_word is applied to a token and its results
MaxAudioWords == 2  \* words in a sentence handed to generate_mixed_audio

-----------------------------------------------------------------------------
(* Generic helpers on sequences *)

Min(a, b) == IF a <= b THEN a ELSE b
Max(a, b) == IF a >= b THEN a ELSE b

RECURSIVE SeqSum(_)
SeqSum(s) == IF s = <<>> THEN 0 ELSE Head(s) + SeqSum(Tail(s))

RECURSIVE Flatten(_)
Flatten(ss) == IF ss = <<>> THEN <<>> ELSE Head(ss) \o Flatten(Tail(ss))

Range(s) == {s[i] : i \in 1..Len(s)}

Filter(s, Keep(_)) == SelectSeq(s, Keep)

Prefix(s, n) == SubSeq(s, 1, Min(n, Len(s)))

MapSeq(s, F(_)) == [i \in 1..Len(s) |-> F(s[i])]

\* Body applied to the value of an expression that is computed once
Bind(value, Body(_)) == CHOOSE r \in {Body(v) : v \in {value}} : TRUE

-----------------------------------------------------------------------------
(* clean_word *)

Whitespace == {" ", "\t", "\n"}

\* the character class of re.sub(r'[.,;:!?"\'\-\(\)\[\]{}]', '', word)
Punctuation == {".", ",", ";", ":", "!", "?", "\"", "'", "-", "(", ")", "[", "]", "{", "}"}

CombiningMarks == {"U+0300", "U+0301"}

\* str.lower() on the characters of the model's alphabet
LowerChar(c) ==
    CASE c = "A" -> "a"
      [] c = "L" -> "l"
      [] c = "U+00C0" -> "U+00E0"
      [] OTHER -> c

\* unicodedata.normalize('NFD', .) on one character
DecomposeChar(c) ==
    CASE c = "U+00E0" -> <<"a", "U+0300">>
      [] c = "U+00E9" -> <<"e", "U+0301">>
      [] OTHER -> <<c>>

RECURSIVE LStrip(_)
LStrip(s) == IF s # <<>> /\ Head(s) \in Whitespace THEN LStrip(Tail(s)) ELSE s

RECURSIVE RStrip(_)
RStrip(s) ==
    IF s # <<>> /\ s[Len(s)] \in Whitespace THEN RStrip(SubSeq(s, 1, Len(s) - 1)) ELSE s

Strip(s) == RStrip(LStrip(s))

IsNotPunctuation(c) == c \notin Punctuation
IsNotCombining(c) == c \notin CombiningMarks

clean_word(word) ==
    Filter(Flatten(MapSeq(MapSeq(Filter(Strip(word), IsNotPunctuation), LowerChar),
                          DecomposeChar)),
           IsNotCombining)

-----------------------------------------------------------------------------
(* The transcript files that may arrive in transcription_dir *)

w_amour == <<"a", "m", "o", "u", "r">>
w_Amour_c == <<" ", "A", "m", "o", "u", "r", ",">>
w_amours == <<"a", "m", "o", "u", "r", "s">>
w_ours == <<"o", "u", "r", "s">>
w_la == <<"l", "a">>
w_le == <<"l", "e">>
w_a_grave == <<"U+00E0">>
w_dots == <<".", ".", ".">>
w_amo == <<"a", "m", "o">>
w_our == <<"o", "u", "r">>
w_l == <<"l">>
w_bang == <<"!">>
w_zzz == <<"z", "z", "z">>

WordData(word, start, duration, confidence) ==
    [word |-> word, start |-> start, end |-> start + duration,
     duration |-> duration, confidence |-> confidence]

FileName(stem, suffix) == [stem |-> stem, suffix |-> suffix]

Transcript(json_path, file, path, segments) ==
    [json_path |-> json_path,
     metadata |-> [file |-> file, path |-> path],
     transcription |-> [segments |-> segments]]

T1 == Transcript("out/rec_complete.json", FileName("rec", ".mp3"), "audio/rec.mp3",
        << [id |-> 0, speaker |-> "A_B",
            words |-> << WordData(w_Amour_c, 0, 400, 90),
                         WordData(w_la, 500, 200, 80),
                         WordData(w_a_grave, 800, 100, 60),
                         WordData(w_dots, 900, 100, 95) >>] >>)

T2 == Transcript("out/rec_A_complete.json", FileName("rec_A", ".mp3"), "audio/rec_A.mp3",
        << [id |-> 0, speaker |-> "B",
            words |-> << WordData(w_amour, 100, 500, 90),
                         WordData(w_amours, 700, 600, 70),
                         WordData(w_le, 1400, 150, 40) >>] >>)

T3 == Transcript("out/int_complete.json", FileName("int", ".wav"), "audio/int.wav",
        << [id |-> 0, speaker |-> "B",
            words |-> << WordData(w_amour, 200, 450, 90),
                         WordData(w_ours, 700, 350, 90) >>],
           [id |-> 1, speaker |-> "C",
            words |-> << WordData(w_amour, 2000, 300, 60),
                         WordData(w_la, 2400, 250, 80) >>] >>)

Catalogue == {T1, T2, T3}

\* Files that break the schema _load_single_transcription reads.
\* T4: the second of three word entries has no 'confidence'; a second segment follows.
T4 == Transcript("out/gap_complete.json", FileName("gap", ".mp3"), "audio/gap.mp3",
        << [id |-> 0, speaker |-> "D",
            words |-> << WordData(w_amour, 100, 300, 85),
                         [word |-> w_la, start |-> 500, end |-> 700, duration |-> 200],
                         WordData(w_ours, 800, 300, 75) >>],
           [id |-> 1, speaker |-> "D",
            words |-> << WordData(w_le, 1500, 200, 65) >>] >>)

\* T5: the metadata has no 'path'
T5 == [json_path |-> "out/nopath_complete.json",
       metadata |-> [file |-> FileName("nopath", ".mp3")],
       transcription |-> [segments |->
          << [id |-> 0, speaker |-> "E",
              words |-> << WordData(w_amour, 0, 300, 70) >>] >>]]

\* T6: the second segment has no 'speaker'
T6 == Transcript("out/anon_complete.json", FileName("anon", ".wav"), "audio/anon.wav",
        << [id |-> 0, speaker |-> "F",
            words |-> << WordData(w_la, 0, 200, 88) >>],
           [id |-> 1,
            words |-> << WordData(w_amour, 400, 300, 77) >>] >>)

\* the *_complete.json files that can appear in a directory holding broken ones
LoadCatalogue == {T1, T3, T4, T5, T6}

-----------------------------------------------------------------------------
(* The word index: an insertion-ordered dict, key -> list of WordMatch.    *)
(* It is a sequence of [key, matches] entries in the order the keys were   *)
(* first inserted, which is the order self.word_index.keys() iterates in.  *)

IndexKeys(index) == [i \in 1..Len(index) |-> index[i].key]

HasKey(index, key) == \E i \in 1..Len(index) : index[i].key = key

KeyPos(index, key) == CHOOSE i \in 1..Len(index) : index[i].key = key

\* self.word_index.get(key, []) and self.word_index[key] for a key of the index
Bucket(index, key) == IF HasKey(index, key) THEN index[KeyPos(index, key)].matches ELSE <<>>

\* self.word_index[cleaned].append(word_match), on a defaultdict(list)
IndexAppend(index, key, match) ==
    IF HasKey(index, key)
    THEN [index EXCEPT ![KeyPos(index, key)].matches = Append(@, match)]
    ELSE Append(index, [key |-> key, matches |-> <<match>>])

AllOccurrences(index) == Flatten([i \in 1..Len(index) |-> index[i].matches])

-----------------------------------------------------------------------------
(* _load_single_transcription and load_transcriptions *)

Has(rec, field) == field \in DOMAIN rec

WordFields == {"start", "end", "duration", "confidence"}

\* the WordMatch(...) constructor call
WordMatch(word_data, cleaned, speaker, json_path, file_name, segment_id, audio_path) ==
    [word |-> word_data.word, cleaned_word |-> cleaned,
     start |-> word_data.start, end |-> word_data.end,
     duration |-> word_data.duration, confidence |-> word_data.confidence,
     speaker |-> speaker, file_path |-> json_path, file_name |-> file_name,
     segment_id |-> segment_id, audio_path |-> audio_path]

\* The loop over segment.get('words', []).  A missing key raises KeyError,
\* which leaves the loops (ok = FALSE); what was appended before stays.
RECURSIVE LoadWords(_, _, _, _)
LoadWords(acc, words, segment, data) ==
    IF words = <<>> \/ ~acc.ok THEN acc
    ELSE IF ~Has(Head(words), "word") THEN [acc EXCEPT !.ok = FALSE]
    ELSE Bind(clean_word(Head(words).word), LAMBDA cleaned :
           IF cleaned = <<>>
           THEN LoadWords(acc, Tail(words), segment, data)
           ELSE IF ~(WordFields \subseteq DOMAIN Head(words))
           THEN [acc EXCEPT !.ok = FALSE]
           ELSE LoadWords(
                  [acc EXCEPT !.index =
                     IndexAppend(@, cleaned,
                       WordMatch(Head(words), cleaned, segment.speaker,
                                 data.json_path, data.metadata.file,
                                 segment.id, data.metadata.path))],
                  Tail(words), segment, data))

RECURSIVE LoadSegments(_, _, _)
LoadSegments(acc, segments, data) ==
    IF segments = <<>> \/ ~acc.ok THEN acc
    ELSE IF ~Has(Head(segments), "id") \/ ~Has(Head(segments), "speaker")
    THEN [acc EXCEPT !.ok = FALSE]
    ELSE LoadSegments(
           LoadWords(acc, IF Has(Head(segments), "words") THEN Head(segments).words
                          ELSE <<>>,
                     Head(segments), data),
           Tail(segments), data)

\* _load_single_transcription: the except clause swallows every error
LoadSingleTranscription(index, data) ==
    IF ~Has(data, "metadata") \/ ~Has(data, "transcription") THEN index
    ELSE IF ~Has(data.metadata, "file") \/ ~Has(data.metadata, "path") THEN index
    ELSE IF ~Has(data.transcription, "segments") THEN index
    ELSE LoadSegments([index |-> index, ok |-> TRUE], data.transcription.segments, data).index

RECURSIVE LoadFiles(_, _)
LoadFiles(index, json_files) ==
    IF json_files = <<>> THEN index
    ELSE LoadFiles(LoadSingleTranscription(index, Head(json_files)), Tail(json_files))

\* load_transcriptions: the player's index and flag after the call, and the
\* exception it raised ("" when it returned)
LoadTranscriptionsResult(loaded, json_files) ==
    IF json_files = <<>>
    THEN [index |-> <<>>, loaded |-> loaded, error |-> "FileNotFoundError"]
    ELSE [index |-> LoadFiles(<<>>, json_files), loaded |-> TRUE, error |-> ""]

-----------------------------------------------------------------------------
(* difflib.SequenceMatcher and difflib.get_close_matches                   *)
(* (no junk and no autojunk: every sequence here is shorter than 200)      *)

\* the blocks a[i .. i+k-1] = b[j .. j+k-1] inside a[alo..ahi], b[blo..bhi]
MatchingBlocks(a, b, alo, ahi, blo, bhi) ==
    {t \in (alo..ahi) \X (blo..bhi) \X (1..Min(ahi - alo + 1, bhi - blo + 1)) :
        /\ t[1] + t[3] - 1 <= ahi
        /\ t[2] + t[3] - 1 <= bhi
        /\ \A d \in 0..(t[3] - 1) : a[t[1] + d] = b[t[2] + d]}

\* find_longest_match: the longest block, the earliest in a, then the earliest in b
LongestMatch(blocks) ==
    CHOOSE t \in blocks :
       \A u \in blocks :
          \/ t[3] > u[3]
          \/ t[3] = u[3] /\ t[1] < u[1]
          \/ t[3] = u[3] /\ t[1] = u[1] /\ t[2] <= u[2]

\* get_matching_blocks: the total size of the matching blocks
RECURSIVE MatchCount(_, _, _, _, _, _)
MatchCount(a, b, alo, ahi, blo, bhi) ==
    IF alo > ahi \/ blo > bhi THEN 0
    ELSE Bind(MatchingBlocks(a, b, alo, ahi, blo, bhi), LAMBDA blocks :
           IF blocks = {} THEN 0
           ELSE Bind(LongestMatch(blocks), LAMBDA t :
                  t[3] + MatchCount(a, b, alo, t[1] - 1, blo, t[2] - 1)
                       + MatchCount(a, b, t[1] + t[3], ahi, t[2] + t[3], bhi)))

\* SequenceMatcher(None, a, b).ratio() = 2.0 * matches / (len(a) + len(b)),
\* kept as the fraction <<numerator, denominator>>; 1.0 for two empty sequences
Ratio(a, b) ==
    IF Len(a) + Len(b) = 0 THEN <<1, 1>>
    ELSE <<2 * MatchCount(a, b, 1, Len(a), 1, Len(b)), Len(a) + Len(b)>>

\* ratio >= percent / 100
RatioAtLeast(r, percent) == 100 * r[1] >= percent * r[2]

RatioLess(r1, r2) == r1[1] * r2[2] < r2[1] * r1[2]
RatioEq(r1, r2) == r1[1] * r2[2] = r2[1] * r1[2]

\* ord(c) for the characters that occur in index keys
CharCode(c) ==
    CASE c = " " -> 32 [] c = "a" -> 97 [] c = "e" -> 101 [] c = "l" -> 108
      [] c = "m" -> 109 [] c = "o" -> 111 [] c = "r" -> 114 [] c = "s" -> 115
      [] c = "u" -> 117 [] c = "z" -> 122 [] OTHER -> 255

\* Python's str comparison x < y
RECURSIVE StrLess(_, _)
StrLess(x, y) ==
    IF y = <<>> THEN FALSE
    ELSE IF x = <<>> THEN TRUE
    ELSE IF Head(x) # Head(y) THEN CharCode(Head(x)) < CharCode(Head(y))
    ELSE StrLess(Tail(x), Tail(y))

\* the tuple comparison (score, x) > (score', x') heapq.nlargest orders by
ScoredGreater(p, q) ==
    \/ RatioLess(q.score, p.score)
    \/ RatioEq(q.score, p.score) /\ StrLess(q.key, p.key)

\* the elements of the set scored, as a sequence from the largest down
RECURSIVE Descending(_)
Descending(scored) ==
    IF scored = {} THEN <<>>
    ELSE Bind(CHOOSE p \in scored : \A q \in scored \ {p} : ScoredGreater(p, q),
              LAMBDA top : <<top>> \o Descending(scored \ {top}))

\* real_quick_ratio(): 2.0 * min(la, lb) / (la + lb)
RealQuickRatio(a, b) ==
    IF Len(a) + Len(b) = 0 THEN <<1, 1>>
    ELSE <<2 * Min(Len(a), Len(b)), Len(a) + Len(b)>>

Count(s, c) == Cardinality({i \in 1..Len(s) : s[i] = c})

\* quick_ratio(): the characters the two sequences share, counted as multisets
QuickRatio(a, b) ==
    IF Len(a) + Len(b) = 0 THEN <<1, 1>>
    ELSE <<2 * SeqSum([i \in 1..Len(a) |->
                         IF Count(SubSeq(a, 1, i), a[i]) <= Count(b, a[i]) THEN 1 ELSE 0]),
           Len(a) + Len(b)>>

\* difflib.get_close_matches(word, possibilities, n, cutoff): the candidate x is
\* seq1 and word is seq2; the result is sorted by (ratio, x) from the largest down.
GetCloseMatches(word, possibilities, n, cutoff) ==
    LET QuickClose(x) == /\ RatioAtLeast(RealQuickRatio(x, word), cutoff)
                         /\ RatioAtLeast(QuickRatio(x, word), cutoff)
        rated == {[score |-> Ratio(x, word), key |-> x] :
                    x \in {y \in Range(possibilities) : QuickClose(y)}}
    IN Bind(Prefix(Descending({p \in rated : RatioAtLeast(p.score, cutoff)}), n),
            LAMBDA best : [i \in 1..Len(best) |-> best[i].key])

-----------------------------------------------------------------------------
(* list.sort(key=..., reverse=True): a stable sort, so elements with equal  *)
(* keys keep their order.  greater[i][j] is key(s[i]) > key(s[j]).          *)

\* The element s[i] goes after every element with a greater key and after the
\* earlier elements with an equal key.
SortDescending(s, greater) ==
    LET Rank(i) == 1 + Cardinality({j \in 1..Len(s) : greater[j][i]})
                     + Cardinality({j \in 1..(i - 1) : ~greater[j][i] /\ ~greater[i][j]})
    IN [p \in 1..Len(s) |-> s[CHOOSE i \in 1..Len(s) : Rank(i) = p]]

HigherConfidence(x, y) == x.confidence > y.confidence

\* A variant of SortByConfidence that leaves the list as it was collected
SortByConfidenceSkipped(matches) == matches

\* A variant of SortByConfidence that is not stable: items of equal confidence
\* come out in the reverse of the order they had
SortByConfidenceTiesReversed(matches) ==
    Bind([i \in 1..Len(matches) |-> matches[Len(matches) + 1 - i]], LAMBDA reversed :
      SortDescending(reversed, [i \in 1..Len(reversed) |-> [j \in 1..Len(reversed) |->
                                  HigherConfidence(reversed[i], reversed[j])]]))

\* matches.sort(key=lambda x: x.confidence, reverse=True)
SortByConfidence(matches) ==
    SortDescending(matches, [i \in 1..Len(matches) |-> [j \in 1..Len(matches) |->
                               HigherConfidence(matches[i], matches[j])]])

-----------------------------------------------------------------------------
(* search_word, after the index is loaded *)

StartsWith(key, term) == Len(term) <= Len(key) /\ SubSeq(key, 1, Len(term)) = term

EndsWith(key, term) ==
    Len(term) <= Len(key) /\ SubSeq(key, Len(key) - Len(term) + 1, Len(key)) = term

\* sum(1 for a, b in zip(cleaned_search, word_key) if a != b)
Differences(cleaned_search, word_key) ==
    Cardinality({i \in 1..Min(Len(cleaned_search), Len(word_key)) :
                    cleaned_search[i] # word_key[i]})

Abs(n) == IF n < 0 THEN -n ELSE n

MorphMinLen == 3
FuzzyCandidates == 3
FuzzyCutoff == 90
FuzzyVerify == 85
ShortMaxLen == 3

\* the buckets of the keys in qualifying, in the order of word_index.keys()
Pool(index, qualifying) ==
    Flatten([i \in 1..Len(index) |->
               IF index[i].key \in qualifying THEN index[i].matches ELSE <<>>])

\* A variant of PrefixMatches without the length guard of the morphological tier
PrefixMatchesAnyLength(index, cleaned_search) ==
    Pool(index, {word_key \in Range(IndexKeys(index)) : StartsWith(word_key, cleaned_search)})

PrefixMatches(index, cleaned_search) ==
    Pool(index, {word_key \in Range(IndexKeys(index)) :
                   Len(cleaned_search) >= MorphMinLen /\ StartsWith(word_key, cleaned_search)})

SuffixMatches(index, cleaned_search) ==
    Pool(index, {word_key \in Range(IndexKeys(index)) :
                   /\ ~(Len(cleaned_search) >= MorphMinLen /\ StartsWith(word_key, cleaned_search))
                   /\ Len(cleaned_search) >= MorphMinLen
                   /\ EndsWith(word_key, cleaned_search)})

FuzzyMatches(index, cleaned_search) ==
    LET similar_words == GetCloseMatches(cleaned_search, IndexKeys(index),
                                         FuzzyCandidates, FuzzyCutoff)
    IN Flatten([i \in 1..Len(similar_words) |->
                  IF RatioAtLeast(Ratio(cleaned_search, similar_words[i]), FuzzyVerify)
                  THEN Bucket(index, similar_words[i]) ELSE <<>>])

\* A variant of PhoneticMatches that compares keys of any length
PhoneticMatchesAnyLength(index, cleaned_search) ==
    IF Len(cleaned_search) <= ShortMaxLen
    THEN Pool(index, {word_key \in Range(IndexKeys(index)) :
                        Differences(cleaned_search, word_key) <= 1})
    ELSE <<>>

\* tier 4, the last resort for short words: the keys within one character of
\* the term in length, with at most one differing character over zip(term, key)
PhoneticMatches(index, cleaned_search) ==
    IF Len(cleaned_search) <= ShortMaxLen
    THEN Pool(index, {word_key \in Range(IndexKeys(index)) :
                        /\ Abs(Len(word_key) - Len(cleaned_search)) <= 1
                        /\ Differences(cleaned_search, word_key) <= 1})
    ELSE <<>>

\* The candidate list of the first tier that has one, as search_word builds it
\* before sorting it: exact_matches, morphological_matches, matches or
\* phonetic_matches.
LaterTierCandidates(index, cleaned_search) ==
    Bind(PrefixMatches(index, cleaned_search) \o SuffixMatches(index, cleaned_search),
         LAMBDA morphological_matches :
      IF morphological_matches # <<>>
      THEN [tier |-> "morphological", candidates |-> morphological_matches]
      ELSE Bind(FuzzyMatches(index, cleaned_search), LAMBDA matches :
        IF matches # <<>>
        THEN [tier |-> "fuzzy", candidates |-> matches]
        ELSE Bind(PhoneticMatches(index, cleaned_search), LAMBDA phonetic_matches :
          IF phonetic_matches # <<>>
          THEN [tier |-> "short", candidates |-> phonetic_matches]
          ELSE [tier |-> "none", candidates |-> <<>>])))

TierCandidates(index, cleaned_search) ==
    Bind(Bucket(index, cleaned_search), LAMBDA exact_matches :
      IF exact_matches # <<>>
      THEN [tier |-> "exact", candidates |-> exact_matches]
      ELSE LaterTierCandidates(index, cleaned_search))

\* What search_word returns on a loaded index: the result list, the tier whose
\* return statement produced it, and the index after the call.  Every tier ends
\* with the same two statements, X.sort(key=confidence, reverse=True) and
\* return X[:max_results]; in tier 1 X is the bucket itself, which the sort
\* reorders in place.
SearchWordResult(index, search_term, max_results) ==
    Bind(clean_word(search_term), LAMBDA cleaned_search :
      Bind(TierCandidates(index, cleaned_search), LAMBDA found :
        Bind(SortByConfidence(found.candidates), LAMBDA sorted :
          [result |-> Prefix(sorted, max_results),
           tier |-> found.tier,
           index |-> IF found.tier = "exact"
                     THEN [index EXCEPT ![KeyPos(index, cleaned_search)].matches = sorted]
                     ELSE index])))

-----------------------------------------------------------------------------
(* find_best_word_match *)

None == [none |-> TRUE]

SelectCap == 50
DampingTenths == 3

\* f"{Path(match.file_name).stem}_{match.speaker}"
SourceKey(match) == match.file_name.stem \o "_" \o match.speaker

\* used_sources.get(source_key, 0)
UsageCount(used_sources, source_key) ==
    IF source_key \in DOMAIN used_sources THEN used_sources[source_key] ELSE 0

\* A variant of HigherScore that ignores the ledger
HigherScoreByConfidence(used_sources, x, y) == x.confidence > y.confidence

\* combined_score(x) > combined_score(y), where combined_score is
\* confidence * (1.0 / (1 + usage_count * 0.3)), compared as exact fractions:
\* c / (1 + 3u/10) = 10c / (10 + 3u).  For the confidences of the transcripts
\* above and usage counts up to 5 the float comparison gives the same answer.
HigherScore(used_sources, x, y) ==
    x.confidence * (10 + DampingTenths * UsageCount(used_sources, SourceKey(y)))
      > y.confidence * (10 + DampingTenths * UsageCount(used_sources, SourceKey(x)))

\* A variant of ConfidentMatches that keeps every match
ConfidentMatchesUnfiltered(matches, min_confidence) == matches

\* scored_matches.sort(key=lambda x: x[0], reverse=True)
SortByScore(matches, used_sources) ==
    SortDescending(matches, [i \in 1..Len(matches) |-> [j \in 1..Len(matches) |->
                               HigherScore(used_sources, matches[i], matches[j])]])

\* matches = [m for m in matches if m.confidence >= min_confidence]
ConfidentMatches(matches, min_confidence) ==
    LET Confident(m) == m.confidence >= min_confidence
    IN Filter(matches, Confident)

\* A variant of PreferredMatches that ignores the preferred speakers
PreferredMatchesIgnored(matches, preferred_speakers) == matches

\* if preferred_speakers: the matches of a preferred speaker when there are
\* any, otherwise matches as it was
PreferredMatches(matches, preferred_speakers) ==
    LET Preferred(m) == m.speaker \in preferred_speakers
    IN IF preferred_speakers = {} THEN matches
       ELSE Bind(Filter(matches, Preferred), LAMBDA preferred_matches :
              IF preferred_matches # <<>> THEN preferred_matches ELSE matches)

\* What find_best_word_match returns on a loaded index (None when there is
\* no match) and the index after the call.  preferred_speakers is a set
\* ({} for None or []), used_sources a function on source keys (<<>> for
\* None or {}).
FindBestWordMatchResult(index, search_term, preferred_speakers, min_confidence, used_sources, prioritize_diversity) ==
    Bind(SearchWordResult(index, search_term, SelectCap), LAMBDA found :
         Bind(ConfidentMatches(found.result, min_confidence), LAMBDA confident :
           [index |-> found.index,
            match |-> IF confident = <<>> THEN None
                      ELSE Bind(PreferredMatches(confident, preferred_speakers),
                                LAMBDA matches :
                             IF prioritize_diversity /\ DOMAIN used_sources # {}
                             THEN SortByScore(matches, used_sources)[1]
                             ELSE matches[1])]))

-----------------------------------------------------------------------------
(* compose_sentence *)

\* A variant of Increment that forgets the selection
IncrementNever(used_sources, source_key) == used_sources

\* used_sources[source_key] = used_sources.get(source_key, 0) + 1
Increment(used_sources, source_key) ==
    [k \in DOMAIN used_sources \cup {source_key} |->
        IF k = source_key THEN UsageCount(used_sources, source_key) + 1
        ELSE used_sources[k]]

RECURSIVE JoinWords(_)
JoinWords(ws) ==
    IF ws = <<>> THEN <<>>
    ELSE IF Len(ws) = 1 THEN ws[1]
    ELSE ws[1] \o <<" ">> \o JoinWords(Tail(ws))

\* The loop over the requested words.  acc holds the local variables
\* selected_words, missing_words and used_sources, the index, and ledgers:
\* the value of used_sources each call of find_best_word_match was given.
\* A variant of ComposeStep that does not record a word that has no match
ComposeStepDropMissing(acc, word, match) ==
    IF match # None
    THEN [acc EXCEPT !.ledgers = Append(@, acc.used_sources),
                     !.selected_words = Append(@, match),
                     !.used_sources = Increment(@, SourceKey(match))]
    ELSE [acc EXCEPT !.ledgers = Append(@, acc.used_sources)]

\* One turn of the loop of compose_sentence, match being what
\* find_best_word_match returned for word
ComposeStep(acc, word, match) ==
    IF match # None
    THEN [acc EXCEPT !.ledgers = Append(@, acc.used_sources),
                     !.selected_words = Append(@, match),
                     !.used_sources = Increment(@, SourceKey(match))]
    ELSE [acc EXCEPT !.ledgers = Append(@, acc.used_sources),
                     !.missing_words = Append(@, word)]

RECURSIVE ComposeLoop(_, _, _, _, _)
ComposeLoop(acc, words, preferred_speakers, min_confidence, prioritize_diversity) ==
    IF words = <<>> THEN acc
    ELSE Bind(FindBestWordMatchResult(acc.index, Head(words), preferred_speakers,
                                      min_confidence, acc.used_sources,
                                      prioritize_diversity), LAMBDA best :
           ComposeLoop(ComposeStep([acc EXCEPT !.index = best.index], Head(words),
                                   best.match),
                       Tail(words), preferred_speakers, min_confidence,
                       prioritize_diversity))

\* A variant of TotalDuration that counts one gap per word
TotalDurationEveryWord(selected_words, max_gap_duration) ==
    SeqSum([i \in 1..Len(selected_words) |-> selected_words[i].duration])
      + max_gap_duration * Len(selected_words)

\* total_duration as compose_sentence computes it
TotalDuration(selected_words, max_gap_duration) ==
    SeqSum([i \in 1..Len(selected_words) |-> selected_words[i].duration])
      + (IF Len(selected_words) > 1
         THEN max_gap_duration * (Len(selected_words) - 1) ELSE 0)

\* the ComposedSentence(...) the call returns
ComposedSentence(selected_words, max_gap_duration) ==
    [text |-> JoinWords([i \in 1..Len(selected_words) |-> Strip(selected_words[i].word)]),
     words |-> selected_words,
     total_duration |-> TotalDuration(selected_words, max_gap_duration),
     speakers_used |-> {selected_words[i].speaker : i \in 1..Len(selected_words)},
     files_used |-> {selected_words[i].file_name : i \in 1..Len(selected_words)}]

\* What compose_sentence does on a loaded index: the value it returns, what
\* it prints about missing words, the ledger it kept, and the index afterwards.
ComposeSentenceResult(index, words, preferred_speakers, min_confidence, max_gap_duration, prioritize_diversity) ==
    Bind(ComposeLoop([index |-> index, selected_words |-> <<>>,
                      missing_words |-> <<>>, used_sources |-> <<>>,
                      ledgers |-> <<>>],
                     words, preferred_speakers, min_confidence,
                     prioritize_diversity), LAMBDA done :
      [returned |-> ComposedSentence(done.selected_words, max_gap_duration),
       printed_missing |-> done.missing_words,
       used_sources |-> done.used_sources,
       ledgers |-> done.ledgers,
       index |-> done.index])

-----------------------------------------------------------------------------
(* generate_mixed_audio.  An AudioSegment is its length in milliseconds.   *)

\* len(AudioSegment.from_file(audio_path)) for the audio files of the transcripts
AudioLength(audio_path) ==
    CASE audio_path = "audio/rec.mp3" -> 1000
      [] audio_path = "audio/rec_A.mp3" -> 1600
      [] audio_path = "audio/int.wav" -> 2600
      [] OTHER -> 0

AudioPaths == {"audio/rec.mp3", "audio/rec_A.mp3", "audio/int.wav"}

StandardFade == 50
StandardDivisor == 4
ArtisticFade == 300
ArtisticDivisor == 2
SeamlessFade == 15
SeamlessDivisor == 10
ArtisticCrossfade == 400
SeamlessCrossfade == 30
SeamlessGapFloor == 50
SeamlessGapDivisor == 3

\* the fade_duration of _process_word_segment for a segment of length len
FadeDuration(fade_mode, len) ==
    IF fade_mode = "artistic" THEN Min(ArtisticFade, len \div ArtisticDivisor)
    ELSE IF fade_mode = "seamless" THEN Min(SeamlessFade, len \div SeamlessDivisor)
    ELSE Min(StandardFade, len \div StandardDivisor)

\* A variant of ChangeTempo in which a failed stretch yields an empty segment
ChangeTempoFailureEmpty(len, factor, preserve_pitch, stretch_fails) ==
    IF stretch_fails
    THEN [length |-> 0, primitive |-> "none"]
    ELSE [length |-> (len * 100) \div factor, primitive |-> "time_stretch"]

\* _change_tempo: librosa.effects.time_stretch(y, rate=factor) in both branches of
\* preserve_pitch; any exception returns the segment unchanged.  factor is a percent.
ChangeTempo(len, factor, preserve_pitch, stretch_fails) ==
    IF stretch_fails
    THEN [length |-> len, primitive |-> "none"]
    ELSE IF preserve_pitch
    THEN [length |-> (len * 100) \div factor, primitive |-> "time_stretch"]
    ELSE [length |-> (len * 100) \div factor, primitive |-> "time_stretch"]

\* _process_word_segment on an audio file already decoded to audio_len ms
ProcessWordSegment(word, audio_len, padding_ms, fade_mode, tempo_factor, preserve_pitch, stretch_fails) ==
    Bind(Max(0, Min(audio_len, word.end + padding_ms)
                  - Min(Max(0, word.start - padding_ms), audio_len)), LAMBDA sliced :
      Bind(IF tempo_factor # 100
           THEN ChangeTempo(sliced, tempo_factor, preserve_pitch, stretch_fails)
           ELSE [length |-> sliced, primitive |-> "none"], LAMBDA tempo :
        Bind(FadeDuration(fade_mode, tempo.length), LAMBDA fade_duration :
          [length |-> tempo.length, sliced |-> sliced, primitive |-> tempo.primitive,
           fade |-> IF tempo.length > fade_duration * 2 THEN fade_duration ELSE 0,
           audio_path |-> word.audio_path])))

\* A variant of DecodeFailure that leaves an entry for the file in the cache
DecodeFailureCached(acc, audio_path) ==
    [acc EXCEPT !.error = "DecodeError", !.failed = audio_path, !.decodes = @ + 1,
                !.cache = [k \in DOMAIN acc.cache \cup {audio_path} |->
                             IF k = audio_path THEN 0 ELSE acc.cache[k]]]

\* _load_audio_file when AudioSegment.from_file raises: the assignment to
\* audio_cache[audio_path] is never reached and the exception leaves the loop.
DecodeFailure(acc, audio_path) ==
    [acc EXCEPT !.error = "DecodeError", !.failed = audio_path, !.decodes = @ + 1]

\* The loop over composed_sentence.words: _load_audio_file, then the segment.
\* Decoding an unreadable file raises, which ends the call (error set).
\* stretch_fails is the set of word positions at which the tempo primitive fails.
RECURSIVE ProcessWords(_, _, _, _, _, _, _, _)
ProcessWords(acc, words, padding_ms, fade_mode, tempo_factor, preserve_pitch, unreadable, stretch_fails) ==
    IF words = <<>> \/ acc.error # "" THEN acc
    ELSE IF Head(words).audio_path \notin DOMAIN acc.cache
            /\ Head(words).audio_path \in unreadable
    THEN DecodeFailure(acc, Head(words).audio_path)
    ELSE Bind(IF Head(words).audio_path \in DOMAIN acc.cache THEN acc.cache
              ELSE [k \in DOMAIN acc.cache \cup {Head(words).audio_path} |->
                      IF k = Head(words).audio_path THEN AudioLength(k)
                      ELSE acc.cache[k]], LAMBDA cache :
           ProcessWords(
             [cache |-> cache,
              decodes |-> acc.decodes + Cardinality(DOMAIN cache) - Cardinality(DOMAIN acc.cache),
              segments |-> Append(acc.segments,
                 ProcessWordSegment(Head(words), cache[Head(words).audio_path], padding_ms,
                                    fade_mode, tempo_factor, preserve_pitch,
                                    (Len(acc.segments) + 1) \in stretch_fails)),
              error |-> "", failed |-> ""],
             Tail(words), padding_ms, fade_mode, tempo_factor, preserve_pitch,
             unreadable, stretch_fails))

\* mixed_audio.append(segment, crossfade=c); c = 0 is plain concatenation
AppendAudio(mixed_len, segment_len, crossfade) == mixed_len + segment_len - crossfade

\* A variant of Junction whose seamless crossfade is not capped
JunctionSeamlessUncapped(fade_mode, mixed_len, segment_len, gap_ms, crossfade_duration) ==
    Bind(IF fade_mode = "seamless"
         THEN [gap |-> Max(SeamlessGapFloor, gap_ms \div SeamlessGapDivisor),
               crossfade |-> crossfade_duration]
         ELSE IF fade_mode = "artistic"
         THEN [gap |-> Max(0, gap_ms - Max(crossfade_duration, ArtisticCrossfade)),
               crossfade |-> Max(crossfade_duration, ArtisticCrossfade)]
         ELSE [gap |-> gap_ms, crossfade |-> crossfade_duration], LAMBDA plan :
      [gap |-> plan.gap,
       crossfade |-> IF /\ (fade_mode = "standard" => plan.crossfade > 0)
                        /\ mixed_len + plan.gap > plan.crossfade
                        /\ segment_len > plan.crossfade
                     THEN plan.crossfade ELSE 0])

\* A variant of Junction whose artistic gap is not shortened by the crossfade
JunctionArtisticFullGap(fade_mode, mixed_len, segment_len, gap_ms, crossfade_duration) ==
    Bind(IF fade_mode = "seamless"
         THEN [gap |-> Max(SeamlessGapFloor, gap_ms \div SeamlessGapDivisor),
               crossfade |-> Min(crossfade_duration, SeamlessCrossfade)]
         ELSE IF fade_mode = "artistic"
         THEN [gap |-> gap_ms, crossfade |-> Max(crossfade_duration, ArtisticCrossfade)]
         ELSE [gap |-> gap_ms, crossfade |-> crossfade_duration], LAMBDA plan :
      [gap |-> plan.gap,
       crossfade |-> IF /\ (fade_mode = "standard" => plan.crossfade > 0)
                        /\ mixed_len + plan.gap > plan.crossfade
                        /\ segment_len > plan.crossfade
                     THEN plan.crossfade ELSE 0])

\* One turn of the loop of _standard_assembly, _artistic_assembly or
\* _seamless_assembly: the silence inserted and the crossfade applied.
Junction(fade_mode, mixed_len, segment_len, gap_ms, crossfade_duration) ==
    Bind(IF fade_mode = "seamless"
         THEN [gap |-> Max(SeamlessGapFloor, gap_ms \div SeamlessGapDivisor),
               crossfade |-> Min(crossfade_duration, SeamlessCrossfade)]
         ELSE IF fade_mode = "artistic"
         THEN Bind(Max(crossfade_duration, ArtisticCrossfade), LAMBDA artistic_crossfade :
                [gap |-> Max(0, gap_ms - artistic_crossfade),
                 crossfade |-> artistic_crossfade])
         ELSE [gap |-> gap_ms, crossfade |-> crossfade_duration], LAMBDA plan :
      [gap |-> plan.gap,
       crossfade |-> IF /\ (fade_mode = "standard" => plan.crossfade > 0)
                        /\ mixed_len + plan.gap > plan.crossfade
                        /\ segment_len > plan.crossfade
                     THEN plan.crossfade ELSE 0])

\* the assembly loop: acc.length is len(mixed_audio)
RECURSIVE Assemble(_, _, _, _, _)
Assemble(acc, segments, fade_mode, gap_ms, crossfade_duration) ==
    IF segments = <<>> THEN acc
    ELSE Bind(Junction(fade_mode, acc.length, Head(segments).length, gap_ms,
                       crossfade_duration), LAMBDA j :
           Assemble([length |-> AppendAudio(acc.length + j.gap, Head(segments).length,
                                            j.crossfade),
                     junctions |-> Append(acc.junctions, j)],
                    Tail(segments), fade_mode, gap_ms, crossfade_duration))

\* A variant of RaiseNoWords that goes on and exports an empty mix
RaiseNoWordsSkipped(cache) ==
    [error |-> "", failed |-> "", cache |-> cache, decodes |-> 0, segments |-> <<>>,
     junctions |-> <<>>, length |-> 0, exported |-> TRUE]

\* if not composed_sentence.words: raise ValueError(...)
RaiseNoWords(cache) ==
    [error |-> "ValueError", failed |-> "", cache |-> cache, decodes |-> 0,
     segments |-> <<>>, junctions |-> <<>>, length |-> 0, exported |-> FALSE]

\* What generate_mixed_audio does: the exception it raises ("" when it returns),
\* the cache afterwards, the decodes it made, the processed segments, the
\* junctions of the assembly and whether the output file was exported.
GenerateMixedAudioResult(cache, composed_sentence, gap_ms, crossfade_duration, padding_ms, fade_mode, tempo_factor, preserve_pitch, unreadable, stretch_fails) ==
    IF composed_sentence.words = <<>>
    THEN RaiseNoWords(cache)
    ELSE Bind(ProcessWords([cache |-> cache, decodes |-> 0, segments |-> <<>>,
                            error |-> "", failed |-> ""],
                           composed_sentence.words, padding_ms, fade_mode,
                           tempo_factor, preserve_pitch, unreadable, stretch_fails),
              LAMBDA done :
           IF done.error # ""
           THEN [error |-> done.error, failed |-> done.failed, cache |-> done.cache,
                 decodes |-> done.decodes, segments |-> done.segments,
                 junctions |-> <<>>, length |-> 0, exported |-> FALSE]
           ELSE Bind(Assemble([length |-> done.segments[1].length, junctions |-> <<>>],
                              Tail(done.segments), fade_mode, gap_ms, crossfade_duration),
                     LAMBDA mixed :
                  [error |-> "", failed |-> "", cache |-> done.cache, decodes |-> done.decodes,
                   segments |-> done.segments, junctions |-> mixed.junctions,
                   length |-> mixed.length, exported |-> TRUE]))

-----------------------------------------------------------------------------
(* The inputs of the calls *)

SearchTerms == {w_amour, w_Amour_c, w_amours, w_amo, w_our, w_le, w_l, w_bang, w_zzz}

SelectTerms == {w_amour, w_our, w_le}

ComposeTerms == {w_amour, w_la, w_zzz}

WordLists(max) == UNION {[1..n -> ComposeTerms] : n \in 1..max}

SpeakerChoices == {{}, {"C"}}

MinConfidences == {50, 70}

DefaultMaxGap == 500

\* max_gap_duration values a caller passes instead of the default
GapDurations == {0, 250}

LedgerKeys == {"rec_A_B", "int_B"}

\* the dicts a caller may hand to find_best_word_match as used_sources
Ledgers == UNION {[keys -> 1..MaxUsage] : keys \in SUBSET LedgerKeys}

FadeModes == {"standard", "artistic", "seamless"}

TempoFactors == {100, 80, 125}
\* gap_duration in ms: none, the default and a gap longer than the artistic crossfade
GapChoices == {0, 300, 900}
\* crossfade_duration in ms: none, the default and one longer than a short word
CrossfadeChoices == {0, 50, 400}
\* the audio files that AudioSegment.from_file cannot decode during a call
UnreadableChoices == {{}, {"audio/int.wav"}, {"audio/rec.mp3"}}

-----------------------------------------------------------------------------
(* The state machine: one MixPlayer, the directory it reads, and a caller   *)
(* that makes one call at a time.  last holds the call that has returned    *)
(* (or raised) until the caller moves on.                                   *)

Idle == [op |-> "idle", error |-> ""]

\* the threads that call search_word on the one player
ThreadIds == {1, 2}

\* a thread that is not inside search_word
IdleFrame == [pc |-> "idle", search_term |-> <<>>, max_results |-> 0, cleaned_search |-> <<>>, result |-> <<>>]

NoThreads == [t \in ThreadIds |-> IdleFrame]

Init ==
    /\ disk = <<>>
    /\ word_index = <<>>
    /\ transcriptions_loaded = FALSE
    /\ loaded_from = 0
    /\ audio_cache = <<>>
    /\ outputs = {}
    /\ last = Idle
    /\ threads = NoThreads

\* a new *_complete.json file appears in transcription_dir
AddTranscript(t) ==
    /\ last = Idle
    /\ Len(disk) < MaxRecords
    /\ t \notin Range(disk)
    /\ disk' = Append(disk, t)
    /\ UNCHANGED <<word_index, transcriptions_loaded, loaded_from, audio_cache, outputs, last, threads>>

\* the caller is done with the result of its last call
Return ==
    /\ last # Idle
    /\ last' = Idle
    /\ UNCHANGED <<disk, word_index, transcriptions_loaded, loaded_from, audio_cache, outputs, threads>>

\* load_transcriptions()
LoadTranscriptions ==
    /\ last = Idle
    /\ \E r \in {LoadTranscriptionsResult(transcriptions_loaded, disk)} :
          /\ word_index' = r.index
          /\ transcriptions_loaded' = r.loaded
          /\ loaded_from' = Len(disk)
          /\ last' = [op |-> "load", error |-> r.error]
    /\ UNCHANGED <<disk, audio_cache, outputs, threads>>

\* if not self.transcriptions_loaded: self.load_transcriptions()
EnsureLoaded ==
    IF transcriptions_loaded
    THEN [index |-> word_index, loaded |-> TRUE, error |-> ""]
    ELSE LoadTranscriptionsResult(transcriptions_loaded, disk)

\* the state after a call whose outcome is out
Finish(out) ==
    /\ word_index' = out.index
    /\ transcriptions_loaded' = out.loaded
    /\ loaded_from' = IF transcriptions_loaded THEN loaded_from ELSE Len(disk)
    /\ last' = out.last
    /\ UNCHANGED <<disk, audio_cache, outputs, threads>>

\* the load-if-needed step raised: the exception leaves the call op
LoadFailed(op, pre) ==
    Finish([index |-> pre.index, loaded |-> pre.loaded,
            last |-> [op |-> op, error |-> pre.error]])

\* search_word(search_term, max_results)
SearchWord(search_term, max_results) ==
    /\ last = Idle
    /\ \E pre \in {EnsureLoaded} :
          IF pre.error # "" THEN LoadFailed("search", pre)
          ELSE \E r \in {SearchWordResult(pre.index, search_term, max_results)} :
                  Finish([index |-> r.index, loaded |-> TRUE,
                          last |-> [op |-> "search", error |-> "",
                                    search_term |-> search_term,
                                    max_results |-> max_results,
                                    result |-> r.result, tier |-> r.tier]])

\* find_best_word_match(search_term, preferred_speakers, min_confidence,
\*                      used_sources, prioritize_diversity)
FindBestWordMatch(search_term, preferred_speakers, min_confidence, used_sources, prioritize_diversity) ==
    /\ last = Idle
    /\ \E pre \in {EnsureLoaded} :
          IF pre.error # "" THEN LoadFailed("select", pre)
          ELSE \E r \in {FindBestWordMatchResult(pre.index, search_term, preferred_speakers,
                                                 min_confidence, used_sources,
                                                 prioritize_diversity)} :
                  Finish([index |-> r.index, loaded |-> TRUE,
                          last |-> [op |-> "select", error |-> "",
                                    search_term |-> search_term,
                                    preferred_speakers |-> preferred_speakers,
                                    min_confidence |-> min_confidence,
                                    used_sources |-> used_sources,
                                    prioritize_diversity |-> prioritize_diversity,
                                    match |-> r.match]])

\* compose_sentence(words, preferred_speakers, min_confidence, max_gap_duration,
\*                  prioritize_diversity)
ComposeSentence(words, preferred_speakers, min_confidence, max_gap_duration, prioritize_diversity) ==
    /\ last = Idle
    /\ \E pre \in {EnsureLoaded} :
          IF pre.error # "" THEN LoadFailed("compose", pre)
          ELSE \E r \in {ComposeSentenceResult(pre.index, words, preferred_speakers,
                                               min_confidence, max_gap_duration,
                                               prioritize_diversity)} :
                  Finish([index |-> r.index, loaded |-> TRUE,
                          last |-> [op |-> "compose", error |-> "", words |-> words,
                                    preferred_speakers |-> preferred_speakers,
                                    min_confidence |-> min_confidence,
                                    max_gap_duration |-> max_gap_duration,
                                    prioritize_diversity |-> prioritize_diversity,
                                    returned |-> r.returned,
                                    printed_missing |-> r.printed_missing,
                                    used_sources |-> r.used_sources,
                                    ledgers |-> r.ledgers]])

DefaultGapMs == 300
DefaultCrossfade == 50
DefaultPaddingMs == 100
DefaultMinConfidence == 50

\* generate_mixed_audio(composed_sentence, output_path, fade_mode=..., tempo_factor=...)
\* on the sentence the last compose_sentence call returned.  unreadable is the set
\* of audio files AudioSegment.from_file fails on, stretch_fails the set of word
\* positions at which the tempo primitive raises.
GenerateMixedAudio(gap_ms, crossfade_duration, fade_mode, tempo_factor, preserve_pitch, unreadable, stretch_fails) ==
    /\ last.op = "compose" /\ last.error = ""
    /\ \E r \in {GenerateMixedAudioResult(audio_cache, last.returned, gap_ms,
                                          crossfade_duration, DefaultPaddingMs, fade_mode,
                                          tempo_factor, preserve_pitch, unreadable,
                                          stretch_fails)} :
          /\ audio_cache' = r.cache
          /\ outputs' = IF r.exported THEN outputs \cup {"out.mp3"} ELSE outputs
          /\ last' = [op |-> "generate", error |-> r.error, failed |-> r.failed,
                      n_words |-> Len(last.returned.words),
                      words |-> last.returned.words,
                      gap_ms |-> gap_ms, crossfade_duration |-> crossfade_duration,
                      fade_mode |-> fade_mode,
                      tempo_factor |-> tempo_factor, preserve_pitch |-> preserve_pitch,
                      stretch_fails |-> stretch_fails, unreadable |-> unreadable,
                      decodes |-> r.decodes, segments |-> r.segments,
                      junctions |-> r.junctions, length |-> r.length,
                      exported |-> r.exported]
    /\ UNCHANGED <<disk, word_index, transcriptions_loaded, loaded_from, threads>>

Next ==
    \/ \E t \in Catalogue : AddTranscript(t)
    \/ Return
    \/ LoadTranscriptions
    \/ \E search_term \in SearchTerms, max_results \in 1..MaxResults :
          SearchWord(search_term, max_results)
    \/ \E search_term \in SelectTerms, preferred_speakers \in SpeakerChoices,
          min_confidence \in MinConfidences, used_sources \in Ledgers,
          prioritize_diversity \in BOOLEAN :
          FindBestWordMatch(search_term, preferred_speakers, min_confidence,
                            used_sources, prioritize_diversity)
    \/ \E words \in WordLists(MaxWords), preferred_speakers \in SpeakerChoices,
          min_confidence \in MinConfidences, prioritize_diversity \in BOOLEAN :
          ComposeSentence(words, preferred_speakers, min_confidence, DefaultMaxGap,
                          prioritize_diversity)
    \/ \E words \in WordLists(MaxWords), max_gap_duration \in GapDurations :
          ComposeSentence(words, {}, DefaultMinConfidence, max_gap_duration, TRUE)

\* The player answering search, select and compose calls while transcripts arrive
Spec == Init /\ [][Next]_vars

-----------------------------------------------------------------------------
(* The audio side: sentences are composed with the default options and     *)
(* rendered, on a directory that no longer changes.                        *)

InitAudio ==
    /\ disk = <<T3, T1>>
    /\ word_index = <<>>
    /\ transcriptions_loaded = FALSE
    /\ loaded_from = 0
    /\ audio_cache = <<>>
    /\ outputs = {}
    /\ last = Idle
    /\ threads = NoThreads

NextAudio ==
    \/ Return
    \/ \E words \in WordLists(MaxAudioWords) :
          ComposeSentence(words, {}, DefaultMinConfidence, DefaultMaxGap, TRUE)
    \/ \E gap_ms \in GapChoices, crossfade_duration \in CrossfadeChoices,
          fade_mode \in FadeModes, unreadable \in UnreadableChoices :
          GenerateMixedAudio(gap_ms, crossfade_duration, fade_mode, 100, TRUE, unreadable, {})
    \/ \E fade_mode \in FadeModes, tempo_factor \in TempoFactors \ {100},
          preserve_pitch \in BOOLEAN, unreadable \in UnreadableChoices,
          stretch_fails \in SUBSET (1..MaxAudioWords) :
          GenerateMixedAudio(DefaultGapMs, DefaultCrossfade, fade_mode, tempo_factor,
                             preserve_pitch, unreadable, stretch_fails)

SpecAudio == InitAudio /\ [][NextAudio]_vars

-----------------------------------------------------------------------------
(* Loading a directory in which some transcripts break the schema *)

NextLoad ==
    \/ \E t \in LoadCatalogue : AddTranscript(t)
    \/ Return
    \/ LoadTranscriptions
    \/ \E search_term \in {w_amour, w_ours} : SearchWord(search_term, MaxResults)

SpecLoad == Init /\ [][NextLoad]_vars

-----------------------------------------------------------------------------
(* A rebuild of the index after the transcription directory changed:       *)
(* reload_mix_player_index calls load_transcriptions on the live player     *)

\* the transcription directory holds no *_complete.json file any more
RemoveTranscripts ==
    /\ last = Idle
    /\ disk # <<>>
    /\ disk' = <<>>
    /\ UNCHANGED <<word_index, transcriptions_loaded, loaded_from, audio_cache, outputs, last, threads>>

NextReload ==
    \/ \E t \in Catalogue : AddTranscript(t)
    \/ RemoveTranscripts
    \/ Return
    \/ LoadTranscriptions
    \/ \E search_term \in {w_amour, w_ours} : SearchWord(search_term, MaxResults)

SpecReload == Init /\ [][NextReload]_vars

-----------------------------------------------------------------------------
(* clean_word applied to a token, then to what it returned *)

\* a letter, an upper-case letter, accented letters, punctuation the regular
\* expression removes, and whitespace
TokenAlphabet == {"a", "A", "U+00E9", "U+00C0", "!", "-", " "}

Tokens == UNION {[1..n -> TokenAlphabet] : n \in 0..MaxTokenLen}

InitClean ==
    /\ disk = <<>>
    /\ word_index = <<>>
    /\ transcriptions_loaded = FALSE
    /\ loaded_from = 0
    /\ audio_cache = <<>>
    /\ outputs = {}
    /\ threads = NoThreads
    /\ last \in {[op |-> "clean_word", error |-> "", word |-> word, passes |-> 0,
                   returned |-> word] : word \in Tokens}

\* clean_word(.) on what the previous pass returned
CleanWord ==
    /\ last.op = "clean_word"
    /\ last.passes < MaxPasses
    /\ last' = [last EXCEPT !.passes = @ + 1, !.returned = clean_word(@)]
    /\ UNCHANGED <<disk, word_index, transcriptions_loaded, loaded_from, audio_cache, outputs, threads>>

NextClean == CleanWord

SpecClean == InitClean /\ [][NextClean]_vars

-----------------------------------------------------------------------------
(* Two threads calling search_word on one loaded player.  A thread can be    *)
(* preempted between two bytecodes and inside exact_matches.sort, whose key  *)
(* function is Python code; CPython empties a list for the duration of its   *)
(* sort and puts the sorted items back when the sort ends.  The scan of      *)
(* tiers 2 to 5 is taken as one step.                                        *)

ThreadTerms == {w_amour, w_Amour_c, w_amo, w_la, w_zzz}

\* the keys whose bucket is inside list.sort
SortingKeys == {threads[t].cleaned_search : t \in {u \in ThreadIds : threads[u].pc = "sorting"}}

\* the index as a reader finds it: a bucket inside list.sort has no items
ApparentIndex ==
    [i \in 1..Len(word_index) |->
       IF word_index[i].key \in SortingKeys
       THEN [key |-> word_index[i].key, matches |-> <<>>]
       ELSE word_index[i]]

\* search_word is entered; the index is loaded; cleaned_search is computed
ThreadCall(t, search_term, max_results) ==
    /\ threads[t].pc = "idle"
    /\ threads' = [threads EXCEPT ![t] =
          [pc |-> "lookup", search_term |-> search_term, max_results |-> max_results,
           cleaned_search |-> clean_word(search_term), result |-> <<>>]]
    /\ UNCHANGED <<disk, word_index, transcriptions_loaded, loaded_from, audio_cache, outputs, last>>

\* exact_matches = self.word_index.get(cleaned_search, []); if exact_matches:
\* otherwise tiers 2 to 5 on the index as it appears
ThreadLookup(t) ==
    /\ threads[t].pc = "lookup"
    /\ \E index \in {ApparentIndex} :
          threads' = [threads EXCEPT ![t] =
             IF Bucket(index, threads[t].cleaned_search) # <<>>
             THEN [@ EXCEPT !.pc = "sort"]
             ELSE [@ EXCEPT !.pc = "done",
                            !.result = SearchWordResult(index, threads[t].search_term,
                                                        threads[t].max_results).result]]
    /\ UNCHANGED <<disk, word_index, transcriptions_loaded, loaded_from, audio_cache, outputs, last>>

\* exact_matches.sort(...) starts: the list is emptied while its items are
\* sorted aside; on a list that is already empty the sort is over at once
ThreadSortBegin(t) ==
    /\ threads[t].pc = "sort"
    /\ threads' = [threads EXCEPT ![t].pc =
          IF threads[t].cleaned_search \in SortingKeys THEN "slice" ELSE "sorting"]
    /\ UNCHANGED <<disk, word_index, transcriptions_loaded, loaded_from, audio_cache, outputs, last>>

\* exact_matches.sort(...) ends: the sorted items are put back in the list
ThreadSortEnd(t) ==
    /\ threads[t].pc = "sorting"
    /\ word_index' = [word_index EXCEPT ![KeyPos(word_index, threads[t].cleaned_search)].matches = SortByConfidence(@)]
    /\ threads' = [threads EXCEPT ![t].pc = "slice"]
    /\ UNCHANGED <<disk, transcriptions_loaded, loaded_from, audio_cache, outputs, last>>

\* return exact_matches[:max_results]
ThreadSlice(t) ==
    /\ threads[t].pc = "slice"
    /\ threads' = [threads EXCEPT ![t] =
          [@ EXCEPT !.pc = "done",
                    !.result = Prefix(Bucket(ApparentIndex, threads[t].cleaned_search),
                                      threads[t].max_results)]]
    /\ UNCHANGED <<disk, word_index, transcriptions_loaded, loaded_from, audio_cache, outputs, last>>

\* the thread is done with the list it was returned
ThreadReturn(t) ==
    /\ threads[t].pc = "done"
    /\ threads' = [threads EXCEPT ![t] = IdleFrame]
    /\ UNCHANGED <<disk, word_index, transcriptions_loaded, loaded_from, audio_cache, outputs, last>>

InitThreads ==
    /\ disk = <<T3, T1>>
    /\ word_index = LoadFiles(<<>>, disk)
    /\ transcriptions_loaded = TRUE
    /\ loaded_from = Len(disk)
    /\ audio_cache = <<>>
    /\ outputs = {}
    /\ last = Idle
    /\ threads = NoThreads

NextThreads ==
    \/ \E t \in ThreadIds, search_term \in ThreadTerms, max_results \in {1, MaxResults} :
          ThreadCall(t, search_term, max_results)
    \/ \E t \in ThreadIds : ThreadLookup(t)
    \/ \E t \in ThreadIds : ThreadSortBegin(t)
    \/ \E t \in ThreadIds : ThreadSortEnd(t)
    \/ \E t \in ThreadIds : ThreadSlice(t)
    \/ \E t \in ThreadIds : ThreadReturn(t)

SpecThreads == InitThreads /\ [][NextThreads]_vars

-----------------------------------------------------------------------------
(* Two threads inside generate_mixed_audio on one player, each calling      *)
(* _load_audio_file for the words of its sentence.  A thread can be         *)
(* preempted between the membership test, the decode (AudioSegment.from_file *)
(* reads the file and runs a decoder: it releases the interpreter lock), the *)
(* assignment to the cache and the final read.  Here a cache entry is the    *)
(* decoded length together with the thread whose decode produced the buffer. *)

\* _load_audio_file(audio_path) is entered
LoadAudioCall(t, audio_path) ==
    /\ threads[t].pc = "idle"
    /\ threads' = [threads EXCEPT ![t] =
          [pc |-> "test", audio_path |-> audio_path, returned |-> 0]]
    /\ UNCHANGED <<disk, word_index, transcriptions_loaded, loaded_from, audio_cache, outputs, last>>

\* if audio_path not in self.audio_cache:
LoadAudioTest(t) ==
    /\ threads[t].pc = "test"
    /\ threads' = [threads EXCEPT ![t].pc =
          IF threads[t].audio_path \notin DOMAIN audio_cache THEN "decode" ELSE "read"]
    /\ UNCHANGED <<disk, word_index, transcriptions_loaded, loaded_from, audio_cache, outputs, last>>

\* AudioSegment.from_file(audio_path), the right-hand side of the assignment
LoadAudioDecode(t) ==
    /\ threads[t].pc = "decode"
    /\ threads' = [threads EXCEPT ![t].pc = "store"]
    /\ UNCHANGED <<disk, word_index, transcriptions_loaded, loaded_from, audio_cache, outputs, last>>

\* self.audio_cache[audio_path] = <the buffer just decoded>
LoadAudioStore(t) ==
    /\ threads[t].pc = "store"
    /\ audio_cache' = [k \in DOMAIN audio_cache \cup {threads[t].audio_path} |->
                         IF k = threads[t].audio_path
                         THEN [length |-> AudioLength(k), decoded_by |-> t]
                         ELSE audio_cache[k]]
    /\ threads' = [threads EXCEPT ![t].pc = "read"]
    /\ UNCHANGED <<disk, word_index, transcriptions_loaded, loaded_from, outputs, last>>

\* return self.audio_cache[audio_path]
LoadAudioRead(t) ==
    /\ threads[t].pc = "read"
    /\ threads' = [threads EXCEPT ![t] =
          [@ EXCEPT !.pc = "done", !.returned = audio_cache[threads[t].audio_path].decoded_by]]
    /\ UNCHANGED <<disk, word_index, transcriptions_loaded, loaded_from, audio_cache, outputs, last>>

\* the segment is sliced from the returned buffer; the thread goes on
LoadAudioDone(t) ==
    /\ threads[t].pc = "done"
    /\ threads' = [threads EXCEPT ![t] = IdleFrame]
    /\ UNCHANGED <<disk, word_index, transcriptions_loaded, loaded_from, audio_cache, outputs, last>>

NextCache ==
    \/ \E t \in ThreadIds, word \in Range(AllOccurrences(word_index)) :
          LoadAudioCall(t, word.audio_path)
    \/ \E t \in ThreadIds : LoadAudioTest(t)
    \/ \E t \in ThreadIds : LoadAudioDecode(t)
    \/ \E t \in ThreadIds : LoadAudioStore(t)
    \/ \E t \in ThreadIds : LoadAudioRead(t)
    \/ \E t \in ThreadIds : LoadAudioDone(t)

SpecCache == InitThreads /\ [][NextCache]_vars

-----------------------------------------------------------------------------
(* The index rebuilt by the background contribution task while the event   *)
(* loop's thread runs search_word on the same player.  The handlers of the  *)
(* API are coroutines that call the player without awaiting, so one thread  *)
(* searches; _process_contribution is a plain function given to             *)
(* BackgroundTasks, which runs it on a worker thread.                       *)

Searcher == 1
Rebuilder == 2

\* search_word is entered on the event loop's thread; the index is loaded
SearcherCall(search_term, max_results) ==
    /\ threads[Searcher].pc = "idle"
    /\ threads' = [threads EXCEPT ![Searcher] =
          [pc |-> "get", search_term |-> search_term, max_results |-> max_results,
           cleaned_search |-> clean_word(search_term), result |-> <<>>, error |-> "",
           exact_matches |-> <<>>, detached |-> FALSE, size |-> 0]]
    /\ UNCHANGED <<disk, word_index, transcriptions_loaded, loaded_from, audio_cache, outputs, last>>

\* exact_matches = self.word_index.get(cleaned_search, []); if exact_matches:
\* otherwise the iteration over self.word_index.keys() starts
SearcherGet ==
    /\ threads[Searcher].pc = "get"
    /\ \E exact_matches \in {Bucket(word_index, threads[Searcher].cleaned_search)} :
          threads' = [threads EXCEPT ![Searcher] =
             IF exact_matches # <<>>
             THEN [@ EXCEPT !.pc = "sort", !.exact_matches = exact_matches]
             ELSE [@ EXCEPT !.pc = "scan", !.size = Len(word_index)]]
    /\ UNCHANGED <<disk, word_index, transcriptions_loaded, loaded_from, audio_cache, outputs, last>>

\* exact_matches.sort(...); return exact_matches[:max_results]: the list is
\* the bucket of the index unless a clear() has dropped it from the index
SearcherSort ==
    /\ threads[Searcher].pc = "sort"
    /\ \E sorted \in {SortByConfidence(IF threads[Searcher].detached
                                        THEN threads[Searcher].exact_matches
                                        ELSE Bucket(word_index, threads[Searcher].cleaned_search))} :
          /\ word_index' = IF threads[Searcher].detached THEN word_index
                           ELSE [word_index EXCEPT ![KeyPos(word_index, threads[Searcher].cleaned_search)].matches = sorted]
          /\ threads' = [threads EXCEPT ![Searcher] =
                [@ EXCEPT !.pc = "done", !.result = Prefix(sorted, threads[Searcher].max_results)]]
    /\ UNCHANGED <<disk, transcriptions_loaded, loaded_from, audio_cache, outputs, last>>

\* for word_key in self.word_index.keys(): ... and the tiers after it; the
\* iterator raises RuntimeError when the dict has changed size since it started
SearcherScan ==
    /\ threads[Searcher].pc = "scan"
    /\ threads' = [threads EXCEPT ![Searcher] =
          IF Len(word_index) # threads[Searcher].size
          THEN [@ EXCEPT !.pc = "done", !.error = "RuntimeError"]
          ELSE [@ EXCEPT !.pc = "done",
                         !.result = Prefix(SortByConfidence(
                                        LaterTierCandidates(word_index, threads[Searcher].cleaned_search).candidates),
                                      threads[Searcher].max_results)]]
    /\ UNCHANGED <<disk, word_index, transcriptions_loaded, loaded_from, audio_cache, outputs, last>>

\* the handler is done with what search_word returned or raised
SearcherReturn ==
    /\ threads[Searcher].pc = "done"
    /\ threads' = [threads EXCEPT ![Searcher] = IdleFrame]
    /\ UNCHANGED <<disk, word_index, transcriptions_loaded, loaded_from, audio_cache, outputs, last>>

\* _process_contribution on a worker thread: _save_transcription writes the
\* new transcript, then models.reload_mix_player_index() is called
ContributionSave(t) ==
    /\ threads[Rebuilder].pc = "idle"
    /\ Len(disk) < MaxRecords
    /\ t \notin Range(disk)
    /\ disk' = Append(disk, t)
    /\ threads' = [threads EXCEPT ![Rebuilder] = [pc |-> "clear", json_files |-> <<>>]]
    /\ UNCHANGED <<word_index, transcriptions_loaded, loaded_from, audio_cache, outputs, last>>

\* self.word_index.clear(); json_files = list(glob): a list the searcher got
\* from the index is no longer in it
ReloadClear ==
    /\ threads[Rebuilder].pc = "clear"
    /\ word_index' = <<>>
    /\ threads' = [threads EXCEPT
          ![Rebuilder] = [pc |-> "load", json_files |-> disk],
          ![Searcher] = IF threads[Searcher].pc = "sort" /\ ~threads[Searcher].detached
                        THEN [@ EXCEPT !.detached = TRUE,
                                       !.exact_matches = Bucket(word_index, threads[Searcher].cleaned_search)]
                        ELSE @]
    /\ UNCHANGED <<disk, transcriptions_loaded, loaded_from, audio_cache, outputs, last>>

\* for json_file in json_files: self._load_single_transcription(json_file)
ReloadLoadFile ==
    /\ threads[Rebuilder].pc = "load"
    /\ threads[Rebuilder].json_files # <<>>
    /\ word_index' = LoadSingleTranscription(word_index, Head(threads[Rebuilder].json_files))
    /\ threads' = [threads EXCEPT ![Rebuilder].json_files = Tail(@)]
    /\ UNCHANGED <<disk, transcriptions_loaded, loaded_from, audio_cache, outputs, last>>

\* self.transcriptions_loaded = True; load_transcriptions returns
ReloadDone ==
    /\ threads[Rebuilder].pc = "load"
    /\ threads[Rebuilder].json_files = <<>>
    /\ transcriptions_loaded' = TRUE
    /\ loaded_from' = Len(disk)
    /\ threads' = [threads EXCEPT ![Rebuilder] = IdleFrame]
    /\ UNCHANGED <<disk, word_index, audio_cache, outputs, last>>

InitRebuild ==
    /\ disk = <<T3>>
    /\ word_index = LoadFiles(<<>>, disk)
    /\ transcriptions_loaded = TRUE
    /\ loaded_from = Len(disk)
    /\ audio_cache = <<>>
    /\ outputs = {}
    /\ last = Idle
    /\ threads = NoThreads

NextRebuild ==
    \/ \E search_term \in ThreadTerms, max_results \in {1, MaxResults} :
          SearcherCall(search_term, max_results)
    \/ SearcherGet
    \/ SearcherSort
    \/ SearcherScan
    \/ SearcherReturn
    \/ \E t \in Catalogue : ContributionSave(t)
    \/ ReloadClear
    \/ ReloadLoadFile
    \/ ReloadDone

SpecRebuild == InitRebuild /\ [][NextRebuild]_vars

-----------------------------------------------------------------------------
(* Properties.  They read the call that has just returned (last) and the    *)
(* player's index; what the properties say about "the candidates" is        *)
(* computed here from the index, not taken from the call.                   *)

FieldsOfComposedSentence == {"text", "words", "total_duration", "speakers_used", "files_used"}

\* the index as load_transcriptions built it, before any search sorted a bucket
FreshIndex ==
    IF loaded_from = 0 THEN <<>> ELSE LoadFiles(<<>>, SubSeq(disk, 1, loaded_from))

\* the place of an occurrence in a scan of the index, key by key
ScanPos(m) ==
    CHOOSE i \in 1..Len(AllOccurrences(FreshIndex)) : AllOccurrences(FreshIndex)[i] = m

CeilDiv(a, b) == (a + b - 1) \div b

\* the (source_id, speaker) pair of an occurrence
PairOf(m) == <<m.file_name, m.speaker>>

\* the ledger key of an occurrence: the stem of its file, "_", its speaker
LedgerKeyOf(m) == m.file_name.stem \o "_" \o m.speaker

\* the largest number of elements of the sequence s that share one Tag
MostUsed(s, Tag(_)) ==
    IF s = <<>> THEN 0
    ELSE CHOOSE n \in 1..Len(s) :
           /\ \E i \in 1..Len(s) : Cardinality({j \in 1..Len(s) : Tag(s[j]) = Tag(s[i])}) = n
           /\ \A i \in 1..Len(s) : Cardinality({j \in 1..Len(s) : Tag(s[j]) = Tag(s[i])}) <= n

TimesUsed(s, Tag(_), tag) == Cardinality({j \in 1..Len(s) : Tag(s[j]) = tag})

\* what the Matcher, called with the cap of select, returns for term
MatcherCandidates(term) == SearchWordResult(word_index, term, SelectCap).result

\* the Matcher's candidates at or above min_confidence
Eligible(term, min_confidence) ==
    LET AtLeast(m) == m.confidence >= min_confidence
    IN SelectSeq(MatcherCandidates(term), AtLeast)

\* the candidates left after the confidence and preferred-speaker filters
SelectPool(term, min_confidence, preferred_speakers) ==
    LET ByPreferred(m) == m.speaker \in preferred_speakers
    IN IF \E i \in 1..Len(Eligible(term, min_confidence)) :
             Eligible(term, min_confidence)[i].speaker \in preferred_speakers
       THEN SelectSeq(Eligible(term, min_confidence), ByPreferred)
       ELSE Eligible(term, min_confidence)

SearchReturned == last.op = "search" /\ last.error = ""
SelectReturned == last.op = "select" /\ last.error = ""
ComposeReturned == last.op = "compose" /\ last.error = ""

\* a compose call that asked for the same word N times
SameWordRequest ==
    /\ ComposeReturned
    /\ \A i \in 1..Len(last.words) : last.words[i] = last.words[1]

\* the same compose call with diversity disabled
WithoutDiversity ==
    ComposeSentenceResult(word_index, last.words, last.preferred_speakers,
                          last.min_confidence, last.max_gap_duration, FALSE).returned.words

-----------------------------------------------------------------------------
(* C1 *)

\* C1, as stated: composing the same word N times with diversity enabled, when
\* at least 2 distinct (source_id, speaker) pairs hold an occurrence of the word
\* at or above min_confidence, never selects one pair more than
\* ceil(N / number of pairs) times, and selects its most-used pair strictly
\* fewer times than the same call with diversity disabled.
C1_AsStated ==
    (SameWordRequest /\ last.prioritize_diversity) =>
       LET pairs == {PairOf(m) : m \in Range(Eligible(last.words[1], last.min_confidence))}
       IN Cardinality(pairs) >= 2 =>
            /\ \A p \in pairs :
                  TimesUsed(last.returned.words, PairOf, p)
                     <= CeilDiv(Len(last.words), Cardinality(pairs))
            /\ MostUsed(last.returned.words, PairOf) < MostUsed(WithoutDiversity, PairOf)

\* C1, amended: composing the same word N times with diversity enabled, when
\* the candidates left after the confidence and preferred-speaker filters all
\* have the same confidence and carry K >= 2 distinct ledger keys (file stem,
\* "_", speaker), selects no ledger key more than ceil(N / K) times, and for
\* N >= 2 selects its most-used ledger key strictly fewer times than the same
\* call with diversity disabled, which selects one occurrence N times.
C1_EqualConfidenceBound ==
    (SameWordRequest /\ last.prioritize_diversity) =>
       LET pool == Range(SelectPool(last.words[1], last.min_confidence,
                                    last.preferred_speakers))
           keys == {LedgerKeyOf(m) : m \in pool}
       IN (Cardinality(keys) >= 2 /\ \A x, y \in pool : x.confidence = y.confidence) =>
            /\ \A k \in keys :
                  TimesUsed(last.returned.words, LedgerKeyOf, k)
                     <= CeilDiv(Len(last.words), Cardinality(keys))
            /\ MostUsed(WithoutDiversity, LedgerKeyOf) = Len(last.words)
            /\ Len(last.words) >= 2 =>
                  MostUsed(last.returned.words, LedgerKeyOf)
                     < MostUsed(WithoutDiversity, LedgerKeyOf)

\* Three requests for a word that two sources hold at the same confidence
\* have been answered two and one.
C1_Witness ==
    /\ SameWordRequest /\ last.prioritize_diversity
    /\ Len(last.words) = 3
    /\ LET pool == Range(SelectPool(last.words[1], last.min_confidence,
                                    last.preferred_speakers))
       IN /\ Cardinality({LedgerKeyOf(m) : m \in pool}) = 2
          /\ \A x, y \in pool : x.confidence = y.confidence
    /\ MostUsed(last.returned.words, LedgerKeyOf) = 2
    /\ Len(last.returned.words) = 3

-----------------------------------------------------------------------------
(* C2 *)

\* C2: composing [w, w, w] with diversity enabled (and no preferred speaker),
\* when exactly 2 distinct (source_id, speaker) pairs carry w and their
\* occurrences have equal confidence, uses one pair twice and the other once:
\* the same pair is never selected for all three words.
C2_TwoSourcesShare ==
    (SameWordRequest /\ last.prioritize_diversity /\ last.preferred_speakers = {}
       /\ Len(last.words) = 3) =>
       LET carried == Range(Eligible(last.words[1], last.min_confidence))
           pairs == {PairOf(m) : m \in carried}
       IN (Cardinality(pairs) = 2 /\ \A x, y \in carried : x.confidence = y.confidence) =>
            /\ Len(last.returned.words) = 3
            /\ \A p \in pairs : TimesUsed(last.returned.words, PairOf, p) \in {1, 2}

-----------------------------------------------------------------------------
(* C3 *)

SearchedKey == clean_word(last.search_term)

ExactKey(word_key) == word_key = SearchedKey

MorphKey(word_key) ==
    /\ Len(SearchedKey) >= MorphMinLen
    /\ StartsWith(word_key, SearchedKey) \/ EndsWith(word_key, SearchedKey)

FuzzyKey(word_key) ==
    /\ RatioAtLeast(Ratio(word_key, SearchedKey), FuzzyCutoff)
    /\ RatioAtLeast(Ratio(SearchedKey, word_key), FuzzyVerify)

ShortKey(word_key) ==
    /\ Len(SearchedKey) <= ShortMaxLen
    /\ Abs(Len(word_key) - Len(SearchedKey)) <= 1
    /\ Differences(SearchedKey, word_key) <= 1

\* some indexed key belongs to the tier
Yields(Key(_)) == \E i \in 1..Len(word_index) : Key(word_index[i].key)

\* the first tier, in the order exact, morphological, fuzzy, short, that has a key
FirstTier ==
    IF Yields(ExactKey) THEN "exact"
    ELSE IF Yields(MorphKey) THEN "morphological"
    ELSE IF Yields(FuzzyKey) THEN "fuzzy"
    ELSE IF Yields(ShortKey) THEN "short"
    ELSE "none"

\* the occurrence m is one of the tier's
FromTier(m, tier) ==
    CASE tier = "exact" -> ExactKey(m.cleaned_word)
      [] tier = "morphological" -> MorphKey(m.cleaned_word)
      [] tier = "fuzzy" -> FuzzyKey(m.cleaned_word)
      [] tier = "short" -> ShortKey(m.cleaned_word)
      [] OTHER -> FALSE

\* C3: search answers from the first tier, in the order exact, morphological,
\* fuzzy, short-word, that has a candidate, and every occurrence it returns is
\* of that tier; the morphological tier never answers for a normalized term
\* shorter than 3 characters; when no tier has a candidate the result is the
\* empty list, and no error is raised.
C3_FirstTierAnswers ==
    /\ (last.op = "search" /\ transcriptions_loaded) => last.error = ""
    /\ SearchReturned =>
          /\ last.tier = FirstTier
          /\ \A i \in 1..Len(last.result) : FromTier(last.result[i], last.tier)
          /\ (last.result = <<>>) <=> (last.tier = "none")
          /\ Len(SearchedKey) < 3 => last.tier # "morphological"

\* A fuzzy answer: the term is no key and no key starts or ends with it.
C3_Witness ==
    /\ SearchReturned
    /\ last.tier = "fuzzy"
    /\ last.result # <<>>
    /\ ~Yields(ExactKey) /\ ~Yields(MorphKey)

-----------------------------------------------------------------------------
(* C4 *)

\* the occurrences of the answering tier, in the order of a scan of the index
TierCandidatesInScanOrder ==
    LET OfTier(m) == FromTier(m, last.tier)
    IN SelectSeq(AllOccurrences(FreshIndex), OfTier)

\* result is the first k of cands when cands is put in the order Before
FirstOf(result, cands, Before(_, _), k) ==
    /\ Len(result) = Min(k, Len(cands))
    /\ \A i \in 1..Len(result) : result[i] \in Range(cands)
    /\ \A i, j \in 1..Len(result) : i < j => Before(result[i], result[j])
    /\ \A c \in Range(cands) \ Range(result) :
          \A i \in 1..Len(result) : Before(result[i], c)

\* higher confidence first, equal confidence in the order of the index scan
ScanOrder(x, y) ==
    \/ x.confidence > y.confidence
    \/ x.confidence = y.confidence /\ ScanPos(x) < ScanPos(y)

\* The order in which a tier collects its candidates: the morphological tier
\* takes the keys that start with the term before those that only end with it,
\* the fuzzy tier takes the keys by descending similarity to the term; within
\* that, and in the other tiers, the order of the index scan.
CollectedBefore(x, y) ==
    LET group(m) == IF last.tier = "morphological"
                       /\ ~StartsWith(m.cleaned_word, SearchedKey) THEN 1 ELSE 0
        closer(m, n) == /\ last.tier = "fuzzy"
                        /\ RatioLess(Ratio(n.cleaned_word, SearchedKey),
                                     Ratio(m.cleaned_word, SearchedKey))
    IN \/ group(x) < group(y)
       \/ group(x) = group(y) /\ closer(x, y)
       \/ group(x) = group(y) /\ ~closer(x, y) /\ ~closer(y, x) /\ ScanPos(x) < ScanPos(y)

CollectionOrder(x, y) ==
    \/ x.confidence > y.confidence
    \/ x.confidence = y.confidence /\ CollectedBefore(x, y)

-----------------------------------------------------------------------------
(* C5 *)

\* the usage select counts against an occurrence: the ledger's count for its
\* source when diversity is enabled and the ledger has history, otherwise none
UsageOf(m) ==
    IF last.prioritize_diversity /\ DOMAIN last.used_sources # {}
          /\ LedgerKeyOf(m) \in DOMAIN last.used_sources
    THEN last.used_sources[LedgerKeyOf(m)] ELSE 0

\* combined scores c / (1 + 0.3 u) compared exactly: 10 c / (10 + 3 u)
ScoreAbove(x, y) == x.confidence * (10 + 3 * UsageOf(y)) > y.confidence * (10 + 3 * UsageOf(x))

\* C5: select returns the candidate of the pool (the candidates left after the
\* confidence and preferred-speaker filters) with the maximum combined score
\* confidence / (1 + 0.3 usage); among candidates tied on the score it returns
\* the one of higher confidence, then the first seen.  With an empty ledger or
\* diversity disabled it returns a candidate of maximum confidence.
C5_MaxCombinedScore ==
    SelectReturned =>
       LET pool == SelectPool(last.search_term, last.min_confidence,
                              last.preferred_speakers)
       IN pool # <<>> =>
            /\ \E i \in 1..Len(pool) :
                  /\ pool[i] = last.match
                  /\ \A j \in 1..Len(pool) :
                        \/ ScoreAbove(pool[i], pool[j])
                        \/ /\ ~ScoreAbove(pool[j], pool[i])
                           /\ pool[i].confidence > pool[j].confidence
                        \/ /\ ~ScoreAbove(pool[j], pool[i])
                           /\ pool[i].confidence = pool[j].confidence
                           /\ i <= j
            /\ (~last.prioritize_diversity \/ DOMAIN last.used_sources = {}) =>
                  \A j \in 1..Len(pool) : last.match.confidence >= pool[j].confidence

\* The ledger made select pass over a candidate of higher confidence.
C5_Witness ==
    /\ SelectReturned
    /\ last.prioritize_diversity
    /\ last.match # None
    /\ \E m \in Range(SelectPool(last.search_term, last.min_confidence,
                                 last.preferred_speakers)) :
          /\ m.confidence > last.match.confidence
          /\ UsageOf(m) > UsageOf(last.match)

-----------------------------------------------------------------------------
(* C6 *)

\* C6: select never returns an occurrence with confidence < min_confidence;
\* it returns none exactly when no candidate the Matcher returns for the term
\* (cap 50) has confidence >= min_confidence.
C6_MinConfidence ==
    SelectReturned =>
       /\ last.match # None => last.match.confidence >= last.min_confidence
       /\ (last.match = None) <=>
             \A m \in Range(MatcherCandidates(last.search_term)) :
                m.confidence < last.min_confidence

\* The Matcher had candidates, all below min_confidence: select returned none.
C6_Witness ==
    /\ SelectReturned
    /\ last.match = None
    /\ MatcherCandidates(last.search_term) # <<>>

-----------------------------------------------------------------------------
(* C7 *)

\* C7: when preferred_speakers is non-empty and some candidate at or above
\* min_confidence has a preferred speaker, the occurrence select returns has a
\* preferred speaker; when there is no such candidate, select returns what it
\* returns with no preferred speakers.
C7_SoftPreference ==
    SelectReturned =>
       LET some_preferred ==
             \E m \in Range(Eligible(last.search_term, last.min_confidence)) :
                m.speaker \in last.preferred_speakers
       IN /\ some_preferred =>
                last.match # None /\ last.match.speaker \in last.preferred_speakers
          /\ ~some_preferred =>
                last.match = FindBestWordMatchResult(
                                word_index, last.search_term, {}, last.min_confidence,
                                last.used_sources, last.prioritize_diversity).match

\* A preferred speaker was returned although another speaker's occurrence
\* has higher confidence.
C7_Witness ==
    /\ SelectReturned
    /\ last.preferred_speakers # {}
    /\ last.match # None
    /\ last.match.speaker \in last.preferred_speakers
    /\ \E m \in Range(Eligible(last.search_term, last.min_confidence)) :
          m.speaker \notin last.preferred_speakers /\ m.confidence > last.match.confidence

-----------------------------------------------------------------------------
(* C8 *)

\* the requested word has a candidate at or above min_confidence
HasMatch(word) == Eligible(word, last.min_confidence) # <<>>

HasNoMatch(word) == ~HasMatch(word)

-----------------------------------------------------------------------------
(* C9 *)

SelectedDurations ==
    SeqSum([i \in 1..Len(last.returned.words) |-> last.returned.words[i].duration])

\* C9, as stated: for any composition compose returns, total_duration equals
\* the sum of the selected occurrences' durations plus gap * (n - 1), n being
\* the number of selected occurrences.
C9_AsStated ==
    ComposeReturned =>
       last.returned.total_duration
          = SelectedDurations + last.max_gap_duration * (Len(last.returned.words) - 1)

\* C9, amended: total_duration equals the sum of the selected occurrences'
\* durations plus gap * (n - 1) when n >= 1, and 0 when no occurrence was
\* selected.
C9_GapsBetweenWords ==
    ComposeReturned =>
       last.returned.total_duration
          = IF last.returned.words = <<>> THEN 0
            ELSE SelectedDurations
                   + last.max_gap_duration * (Len(last.returned.words) - 1)

\* A composition of several words with a gap the caller chose.
C9_Witness ==
    /\ ComposeReturned
    /\ Len(last.returned.words) >= 2
    /\ last.max_gap_duration = 250
    /\ last.returned.total_duration > SelectedDurations

-----------------------------------------------------------------------------
(* C10 *)

\* C10: generate_mixed_audio on a ComposedSentence with zero words fails with
\* an error, decodes no audio file, adds no cache entry and writes no output.
C10_EmptyRejected ==
    [][(/\ last.op = "compose" /\ last.error = ""
        /\ last.returned.words = <<>>
        /\ last'.op = "generate")
         => /\ last'.error = "ValueError"
            /\ last'.decodes = 0
            /\ audio_cache' = audio_cache
            /\ outputs' = outputs]_vars

\* A sentence without words was refused by a player that has rendered before.
C10_Witness ==
    /\ last.op = "generate"
    /\ last.n_words = 0
    /\ last.error = "ValueError"
    /\ audio_cache # <<>>
    /\ outputs # {}

-----------------------------------------------------------------------------
(* C11 *)

\* the files of the sentence being rendered that have to be decoded and cannot be
UndecodableFiles(words, cache, unreadable) ==
    {words[i].audio_path : i \in 1..Len(words)} \cap (unreadable \ DOMAIN cache)

\* C11: when the audio file of a selected occurrence cannot be decoded,
\* generate_mixed_audio ends with an error: it returns no waveform, writes no
\* output file and leaves the undecodable file out of the decode cache.
C11_DecodeFailureAborts ==
    [][(/\ last.op = "compose" /\ last.error = ""
        /\ last'.op = "generate"
        /\ UndecodableFiles(last.returned.words, audio_cache, last'.unreadable) # {})
         => /\ last'.error = "DecodeError"
            /\ ~last'.exported
            /\ last'.length = 0
            /\ last'.junctions = <<>>
            /\ outputs' = outputs
            /\ DOMAIN audio_cache' \cap
                  UndecodableFiles(last.returned.words, audio_cache, last'.unreadable) = {}]_vars

\* A two-word rendering decoded the file of its first word, then failed on the
\* file of its second word.
C11_Witness ==
    /\ last.op = "generate"
    /\ last.error = "DecodeError"
    /\ last.n_words = 2
    /\ last.decodes = 2
    /\ Len(last.segments) = 1
    /\ last.failed \notin DOMAIN audio_cache
    /\ audio_cache # <<>>

-----------------------------------------------------------------------------
(* C12 *)

\* the length of the slice audio[start_ms:end_ms] cut for a word
SliceLength(word, padding_ms) ==
    Max(0, Min(AudioLength(word.audio_path), word.end + padding_ms)
           - Min(Max(0, word.start - padding_ms), AudioLength(word.audio_path)))

\* C12: every completed assembly received exactly one processed segment per word
\* of the sentence, in word order; a segment whose tempo stretch failed is the
\* unmodified slice, and the words after it were still processed.
C12_OneSegmentPerWord ==
    (last.op = "generate" /\ last.error = "")
      => /\ Len(last.segments) = Len(last.words)
         /\ Len(last.junctions) = Len(last.words) - 1
         /\ last.exported
         /\ \A i \in 1..Len(last.words) :
               /\ last.segments[i].audio_path = last.words[i].audio_path
               /\ last.segments[i].sliced = SliceLength(last.words[i], DefaultPaddingMs)
               /\ (last.tempo_factor # 100 /\ i \in last.stretch_fails)
                    => /\ last.segments[i].primitive = "none"
                       /\ last.segments[i].length = last.segments[i].sliced

\* A two-word rendering completed although the stretch of its first word failed;
\* the second word was stretched.
C12_Witness ==
    /\ last.op = "generate"
    /\ last.error = ""
    /\ last.tempo_factor # 100
    /\ Len(last.words) = 2
    /\ last.stretch_fails = {1}
    /\ last.words[1].audio_path # last.words[2].audio_path
    /\ last.segments[1].length > 0
    /\ last.segments[2].primitive = "time_stretch"

-----------------------------------------------------------------------------
(* C13 *)

\* what the call of thread t returns when no other call runs on the player
ReturnedAlone(t) ==
    SearchWordResult(word_index, threads[t].search_term, threads[t].max_results).result

\* C13, as stated: in every interleaving of two concurrent search calls on one
\* loaded player each call returns what it returns when it runs alone (a call
\* that found a bucket in an intermediate state returns something else).
C13_AsStated ==
    \A t \in ThreadIds :
       threads[t].pc = "done" => threads[t].result = ReturnedAlone(t)

-----------------------------------------------------------------------------
(* C14 *)

\* what the compose call just made returns on a player that has answered no
\* call since it loaded the same files
ComposedOnFreshIndex ==
    ComposeSentenceResult(FreshIndex, last.words, last.preferred_speakers,
                          last.min_confidence, last.max_gap_duration,
                          last.prioritize_diversity)

-----------------------------------------------------------------------------
(* C15 *)

\* the files the index was last built from
LoadedFiles == SubSeq(disk, 1, loaded_from)

LoadReturned == last.op = "load" /\ last.error = ""

\* the record has everything the loader reads outside the word entries
RecordWellFormed(data) ==
    /\ {"metadata", "transcription"} \subseteq DOMAIN data
    /\ {"file", "path"} \subseteq DOMAIN data.metadata
    /\ "segments" \in DOMAIN data.transcription
    /\ \A i \in 1..Len(data.transcription.segments) :
          {"id", "speaker"} \subseteq DOMAIN data.transcription.segments[i]

\* the word entry has the text and the four numbers
EntryWellFormed(word_data) == ({"word"} \cup WordFields) \subseteq DOMAIN word_data

\* every word entry of the record has the text and the four numbers
EntriesWellFormed(data) ==
    \A i \in 1..Len(data.transcription.segments) :
       \A k \in 1..Len(data.transcription.segments[i].words) :
          EntryWellFormed(data.transcription.segments[i].words[k])

\* the occurrences the index holds for the record
OccurrencesOf(data) ==
    {m \in Range(AllOccurrences(word_index)) : m.file_path = data.json_path}

\* the word entry of segment is in the index
Indexed(data, segment, word_data) ==
    \E m \in OccurrencesOf(data) :
       /\ m.segment_id = segment.id
       /\ m.word = word_data.word
       /\ m.start = word_data.start

\* every word entry of the record that has a key is in the index
IndexedCompletely(data) ==
    \A i \in 1..Len(data.transcription.segments) :
       \A k \in 1..Len(data.transcription.segments[i].words) :
          LET word_data == data.transcription.segments[i].words[k]
          IN (EntryWellFormed(word_data) /\ clean_word(word_data.word) # <<>>)
               => Indexed(data, data.transcription.segments[i], word_data)

\* C15, as stated: load_transcriptions on a directory with a malformed record
\* (one that lacks the metadata, the segments, or the id or speaker of a
\* segment) does not fail, indexes no occurrence of the malformed record and
\* indexes every record without a defect completely.
C15_AsStated ==
    (last.op = "load" /\ disk # <<>>) =>
       /\ last.error = ""
       /\ \A i \in 1..Len(LoadedFiles) :
             IF RecordWellFormed(LoadedFiles[i])
             THEN EntriesWellFormed(LoadedFiles[i]) => IndexedCompletely(LoadedFiles[i])
             ELSE OccurrencesOf(LoadedFiles[i]) = {}

-----------------------------------------------------------------------------
(* C16 *)

\* C16, as stated: of a record whose word entries do not all have the required
\* fields, every word entry that has them is indexed, whether it comes before
\* or after an entry that lacks one.
C16_AsStated ==
    LoadReturned =>
       \A i \in 1..Len(LoadedFiles) :
          RecordWellFormed(LoadedFiles[i]) => IndexedCompletely(LoadedFiles[i])

-----------------------------------------------------------------------------
(* C17 *)

HasEmptyKey(word) == clean_word(word) = <<>>

HasKeyLeft(word) == ~HasEmptyKey(word)

\* C17, as stated: a requested word whose key is empty after clean_word is no
\* word: search returns no occurrence for it, select returns none, compose
\* prints it as missing and places no occurrence for it, whatever the index holds.
C17_AsStated ==
    /\ (SearchReturned /\ HasEmptyKey(last.search_term)) => last.result = <<>>
    /\ (SelectReturned /\ HasEmptyKey(last.search_term)) => last.match = None
    /\ ComposeReturned =>
          /\ Len(last.returned.words) <= Len(SelectSeq(last.words, HasKeyLeft))
          /\ \A i \in 1..Len(last.words) :
                HasEmptyKey(last.words[i]) => last.words[i] \in Range(last.printed_missing)

-----------------------------------------------------------------------------
(* C18 *)

\* C18, as stated: clean_word is idempotent on every token built from letters,
\* upper-case and accented letters, removed punctuation and whitespace in any
\* positions: applied to a key it returned, it returns that key.
C18_AsStated ==
    (last.op = "clean_word" /\ last.passes >= 1) => clean_word(last.returned) = last.returned

-----------------------------------------------------------------------------
(* C19 *)

GenerateReturned == last.op = "generate" /\ last.error = ""

\* the silence, in ms, that the rendering just made inserts between segments
\* when it is made in fade_mode, everything else equal
SilenceIn(fade_mode) ==
    Bind(GenerateMixedAudioResult(audio_cache, [words |-> last.words], last.gap_ms,
                                  last.crossfade_duration, DefaultPaddingMs, fade_mode,
                                  last.tempo_factor, last.preserve_pitch, {},
                                  last.stretch_fails).junctions, LAMBDA junctions :
      SeqSum([i \in 1..Len(junctions) |-> junctions[i].gap]))

\* the silence the rendering just made did insert
SilenceInserted == SeqSum([i \in 1..Len(last.junctions) |-> last.junctions[i].gap])

\* C19, as stated: for the same sentence of two or more words and the same
\* gap_duration, seamless mode inserts strictly less silence between the
\* segments than artistic mode.
C19_AsStated ==
    (GenerateReturned /\ Len(last.words) >= 2 /\ last.fade_mode = "seamless")
      => SilenceInserted < SilenceIn("artistic")

\* C19, amended: between two segments seamless mode inserts
\* max(50, gap_ms // 3) ms of silence and artistic mode
\* max(0, gap_ms - max(crossfade_duration, 400)) ms; seamless inserts strictly
\* less than artistic exactly when gap_ms - max(crossfade_duration, 400)
\* exceeds max(50, gap_ms // 3), and not with the default gap of 300 ms, where
\* artistic inserts none.
C19_SilenceByMode ==
    (GenerateReturned /\ Len(last.words) >= 2 /\ last.fade_mode \in {"seamless", "artistic"})
      => /\ SilenceInserted = SilenceIn(last.fade_mode)
         /\ SilenceIn("seamless")
               = (Len(last.words) - 1) * Max(SeamlessGapFloor, last.gap_ms \div SeamlessGapDivisor)
         /\ SilenceIn("artistic")
               = (Len(last.words) - 1)
                   * Max(0, last.gap_ms - Max(last.crossfade_duration, ArtisticCrossfade))
         /\ (SilenceIn("seamless") < SilenceIn("artistic"))
               <=> (last.gap_ms - Max(last.crossfade_duration, ArtisticCrossfade)
                      > Max(SeamlessGapFloor, last.gap_ms \div SeamlessGapDivisor))
         /\ last.gap_ms = DefaultGapMs
               => SilenceIn("artistic") = 0 /\ SilenceIn("seamless") > 0

\* A two-word artistic rendering with the default gap inserted no silence
\* where the seamless rendering inserts some.
C19_Witness ==
    /\ GenerateReturned
    /\ Len(last.words) = 2
    /\ last.fade_mode = "artistic"
    /\ last.gap_ms = DefaultGapMs
    /\ SilenceInserted = 0
    /\ SilenceIn("seamless") > SilenceIn("artistic")

-----------------------------------------------------------------------------
(* C20 *)

\* C20, as stated: with tempo_factor != 1.0 a slice whose tempo change succeeds
\* goes through the pitch-preserving time stretch when preserve_pitch is true
\* and through a different operation when it is false; with tempo_factor == 1.0
\* no tempo primitive is invoked.
C20_AsStated ==
    GenerateReturned =>
       \A i \in 1..Len(last.segments) :
          /\ last.tempo_factor = 100 => last.segments[i].primitive = "none"
          /\ (last.tempo_factor # 100 /\ i \notin last.stretch_fails) =>
                IF last.preserve_pitch
                THEN last.segments[i].primitive = "time_stretch"
                ELSE last.segments[i].primitive \notin {"time_stretch", "none"}

-----------------------------------------------------------------------------
(* C21 *)

\* the selected occurrences among the first k requested words: the ledger
\* handed to the select of word k + 1 was built from them
SelectedBefore(k) ==
    SubSeq(last.returned.words, 1,
           Len(last.returned.words)
             - Cardinality({j \in (k + 1)..Len(last.words) :
                              last.words[j] \notin Range(last.printed_missing)}))

\* C21, as stated: at every step of a composition the usage the Selector reads
\* for a candidate is the number of occurrences with that candidate's
\* (source_id, speaker) pair selected so far, the counts sum to the number of
\* selected words, and so it is for the ledger at the end of the call.
C21_AsStated ==
    ComposeReturned =>
       /\ \A k \in 1..Len(last.words) :
             \A m \in Range(AllOccurrences(word_index)) :
                UsageCount(last.ledgers[k], SourceKey(m))
                   = TimesUsed(SelectedBefore(k - 1), PairOf, PairOf(m))
       /\ \A m \in Range(AllOccurrences(word_index)) :
             UsageCount(last.used_sources, SourceKey(m))
                = TimesUsed(last.returned.words, PairOf, PairOf(m))
       /\ SeqSum([i \in 1..Len(last.returned.words) |->
                    IF \A j \in 1..(i - 1) :
                          SourceKey(last.returned.words[j]) # SourceKey(last.returned.words[i])
                    THEN last.used_sources[SourceKey(last.returned.words[i])] ELSE 0])
             = Len(last.returned.words)

-----------------------------------------------------------------------------
(* C22 *)

\* C22, as stated: after any sequence of search, select and compose calls the
\* index has the keys it had right after the build and every bucket holds the
\* same occurrences in the same order.
C22_AsStated ==
    (last.op \in {"search", "select", "compose"} /\ last.error = "")
      => word_index = FreshIndex

-----------------------------------------------------------------------------
(* C23 *)

\* the word entries of the loaded files that have a text with a non-empty key:
\* file, segment and entry numbers
KeyedEntries ==
    {e \in UNION {UNION {{<<f, s, k>> :
                           k \in 1..Len(LoadedFiles[f].transcription.segments[s].words)} :
                         s \in 1..Len(LoadedFiles[f].transcription.segments)} :
                  f \in 1..Len(LoadedFiles)} :
       /\ "word" \in DOMAIN LoadedFiles[e[1]].transcription.segments[e[2]].words[e[3]]
       /\ clean_word(LoadedFiles[e[1]].transcription.segments[e[2]].words[e[3]].word) # <<>>}

\* the places of the index that hold an occurrence made from the entry e
PlacesOf(e) ==
    {p \in 1..Len(AllOccurrences(word_index)) :
       /\ AllOccurrences(word_index)[p].file_path = LoadedFiles[e[1]].json_path
       /\ AllOccurrences(word_index)[p].segment_id
             = LoadedFiles[e[1]].transcription.segments[e[2]].id
       /\ AllOccurrences(word_index)[p].word
             = LoadedFiles[e[1]].transcription.segments[e[2]].words[e[3]].word
       /\ AllOccurrences(word_index)[p].start
             = LoadedFiles[e[1]].transcription.segments[e[2]].words[e[3]].start}

\* C23, as stated: after a successful load_transcriptions the index holds
\* exactly one occurrence for each word entry, of the files now present, whose
\* key is not empty, and nothing else; every occurrence is in the bucket of its
\* own key, no bucket is empty, no key is empty or repeated.
C23_AsStated ==
    (LoadReturned /\ loaded_from = Len(disk)) =>
       /\ \A e \in KeyedEntries : Cardinality(PlacesOf(e)) = 1
       /\ Len(AllOccurrences(word_index)) = Cardinality(KeyedEntries)
       /\ \A i \in 1..Len(word_index) :
             /\ word_index[i].key # <<>>
             /\ word_index[i].matches # <<>>
             /\ \A j \in 1..Len(word_index) : word_index[j].key = word_index[i].key => j = i
             /\ \A n \in 1..Len(word_index[i].matches) :
                   /\ clean_word(word_index[i].matches[n].word) = word_index[i].key
                   /\ word_index[i].matches[n].cleaned_word = word_index[i].key

-----------------------------------------------------------------------------
(* C24 *)

\* the threads that are decoding audio_path or hold a buffer decoded from it
\* that they have not stored yet
Decoding(audio_path) ==
    {t \in ThreadIds : threads[t].pc \in {"decode", "store"}
                        /\ threads[t].audio_path = audio_path}

\* C24, as stated: under every interleaving of concurrent calls the cache is
\* insert-if-absent: no file is decoded while it is cached or being decoded by
\* another call, so no cached buffer is replaced, and every call is handed the
\* one buffer of its file.
C24_AsStated ==
    \A audio_path \in AudioPaths :
       /\ Cardinality(Decoding(audio_path)) <= 1
       /\ audio_path \in DOMAIN audio_cache => Decoding(audio_path) = {}

-----------------------------------------------------------------------------
(* C25 *)

\* the number of places, over the shorter length, at which a and b differ
Mismatches(a, b) ==
    Cardinality({i \in 1..Len(a) : i <= Len(b) /\ a[i] # b[i]})

\* the occurrences of the index whose key is within one character of the term
\* in length and in mismatches
ShortCandidates ==
    LET Near(m) == /\ Len(m.cleaned_word) - Len(SearchedKey) \in {-1, 0, 1}
                   /\ Mismatches(SearchedKey, m.cleaned_word) <= 1
    IN SelectSeq(AllOccurrences(word_index), Near)

\* C25: the short-word tier answers only for a normalized term of length <= 3
\* and only when the exact, morphological and fuzzy tiers have no candidate;
\* it then returns min(max_results, n) of the n occurrences of the keys whose
\* length differs from the term's by at most 1 and that differ from the term
\* in at most 1 place over the shorter length, and it answers whenever n > 0.
C25_ShortWordTier ==
    SearchReturned =>
       /\ last.tier = "short" =>
             /\ Len(SearchedKey) <= 3
             /\ ~Yields(ExactKey) /\ ~Yields(MorphKey) /\ ~Yields(FuzzyKey)
             /\ Range(last.result) \subseteq Range(ShortCandidates)
             /\ Len(last.result) = Min(last.max_results, Len(ShortCandidates))
       /\ (/\ Len(SearchedKey) <= 3
           /\ ~Yields(ExactKey) /\ ~Yields(MorphKey) /\ ~Yields(FuzzyKey)
           /\ ShortCandidates # <<>>) => last.tier = "short"

\* The one-letter term "l" was answered by the short-word tier with the
\* occurrences of two-letter keys, while longer keys of the index were left out.
C25_Witness ==
    /\ SearchReturned
    /\ last.tier = "short"
    /\ Len(SearchedKey) = 1
    /\ \E i \in 1..Len(last.result) : Len(last.result[i].cleaned_word) = 2
    /\ Len(ShortCandidates) < Len(AllOccurrences(word_index))
    /\ Len(last.result) = Len(ShortCandidates)

-----------------------------------------------------------------------------
(* C26 *)

\* the fade length the modes are described with, for a segment of len ms
DescribedFade(fade_mode, len) ==
    CASE fade_mode = "artistic" -> Min(300, len \div 2)
      [] fade_mode = "seamless" -> Min(15, len \div 10)
      [] OTHER -> Min(50, len \div 4)

\* C26, as stated: every processed segment of length L > 0 receives a fade-in
\* and a fade-out of min(50, L/4) ms in standard mode, min(300, L/2) in
\* artistic mode and min(15, L/10) in seamless mode, and twice the fade length
\* is at most L.
C26_AsStated ==
    GenerateReturned =>
       \A i \in 1..Len(last.segments) :
          last.segments[i].length > 0 =>
             /\ last.segments[i].fade = DescribedFade(last.fade_mode, last.segments[i].length)
             /\ 2 * last.segments[i].fade <= last.segments[i].length

-----------------------------------------------------------------------------
(* C27 *)

\* C27, as stated: in standard assembly every junction inserts gap_duration of
\* silence and is overlap-mixed by the crossfade length exactly when the word
\* segment before it and the word segment after it are both longer than the
\* crossfade length, and is a plain concatenation otherwise.
C27_AsStated ==
    (GenerateReturned /\ last.fade_mode = "standard") =>
       \A j \in 1..Len(last.junctions) :
          /\ last.junctions[j].gap = last.gap_ms
          /\ last.junctions[j].crossfade
                = IF /\ last.segments[j].length > last.crossfade_duration
                     /\ last.segments[j + 1].length > last.crossfade_duration
                  THEN last.crossfade_duration ELSE 0

-----------------------------------------------------------------------------
(* C28 *)

\* C28, as stated: for every gap_duration >= 0 and crossfade_duration >= 0 the
\* silence seamless assembly inserts at a junction is at most the gap standard
\* assembly inserts for the same gap_duration, and the crossfade applied is at
\* most 30 ms.
C28_AsStated ==
    (GenerateReturned /\ last.fade_mode = "seamless") =>
       \A j \in 1..Len(last.junctions) :
          /\ last.junctions[j].gap <= last.gap_ms
          /\ last.junctions[j].crossfade <= 30

\* C28, amended: seamless assembly inserts max(50, gap_ms // 3) ms of silence
\* at every junction: a third of the standard gap but never less than 50 ms,
\* hence longer than the standard gap when gap_duration is below 50 ms; the
\* crossfade it applies is min(crossfade_duration, 30) ms, or none when the mix
\* so far or the next segment is not longer than that.
C28_SeamlessJunction ==
    (GenerateReturned /\ last.fade_mode = "seamless") =>
       \A j \in 1..Len(last.junctions) :
          /\ last.junctions[j].gap = Max(50, last.gap_ms \div 3)
          /\ (last.junctions[j].gap <= last.gap_ms) <=> (last.gap_ms >= 50)
          /\ last.junctions[j].crossfade \in {0, Min(last.crossfade_duration, 30)}
          /\ last.segments[j + 1].length > 30 =>
                last.junctions[j].crossfade = Min(last.crossfade_duration, 30)

\* A seamless rendering of two words with gap_duration 0 and a long crossfade
\* requested: 50 ms of silence were inserted and 30 ms crossfaded.
C28_Witness ==
    /\ GenerateReturned
    /\ last.fade_mode = "seamless"
    /\ last.gap_ms = 0
    /\ last.crossfade_duration = 400
    /\ Len(last.junctions) = 1
    /\ last.junctions[1].gap = 50
    /\ last.junctions[1].crossfade = 30

-----------------------------------------------------------------------------
(* C29 *)

\* load_transcriptions raised because no transcript file was found
RebuildFailed ==
    /\ last = Idle
    /\ last'.op = "load"
    /\ last'.error = "FileNotFoundError"

\* C29, as stated: a rebuild that fails because no transcript file is found
\* leaves the index as it was built before and leaves transcriptions_loaded
\* as it was.
C29_AsStated ==
    [][RebuildFailed => /\ word_index' = word_index
                        /\ transcriptions_loaded' = transcriptions_loaded]_vars

-----------------------------------------------------------------------------
(* C30 *)

\* the indexes load_transcriptions builds from the directory as it was before
\* and after each contribution
CompleteIndexes == {LoadFiles(<<>>, SubSeq(disk, 1, n)) : n \in 1..Len(disk)}

\* C30, as stated: a search that runs while the index is being rebuilt does
\* not fail, and returns what search_word returns on the complete index built
\* before the rebuild or on the complete index built by it.
C30_AsStated ==
    threads[Searcher].pc = "done" =>
       /\ threads[Searcher].error = ""
       /\ \E index \in CompleteIndexes :
             threads[Searcher].result =
                SearchWordResult(index, threads[Searcher].search_term,
                                 threads[Searcher].max_results).result

====
